---- MODULE Spec2Model ----
(***************************************************************************)
(* chat-migrator: conversation acquisition and normalisation.              *)
(*                                                                         *)
(*   Path A  src/unnamed/part_005 (ChatGPT parser): extractMainThread,     *)
(*           extractBranches, extractBranchThread over a node mapping.     *)
(*   Path B  src/lib/scraper/enhanced-scraper.ts (retryOperation,          *)
(*           enhancedScrape, saveProgress/loadProgress) driven by the      *)
(*           POST handler of src/unnamed/part_001 (enhanced route).        *)
(*                                                                         *)
(* GraphSpec / FairGraphSpec run the parser on every two-node mapping and  *)
(* on every four-node tree; Spec / FairSpec run scrape requests against a  *)
(* progress store; HelperSpec applies smartDelay, calculateDelay and       *)
(* queryWithFallback to arguments from small sets.                         *)
(***************************************************************************)
EXTENDS Integers, Sequences, FiniteSets, TLC

NULL == "null"

(***************************************************************************)
(* Path A: the node mapping                                                *)
(***************************************************************************)

\* Every key a mapping can have, in insertion order.
Keys == <<"A", "B", "C", "D">>
\* A parent reference that names no node of the mapping.
Dangling == "X"
\* Longest children array of a node of an arbitrary mapping.
MaxChildren == 2
\* What a node carries: no message, a user message with text, a tool message
\* with text, a system message, a user message whose resolved text is empty.
MsgKinds == {"none", "user", "tool", "system", "empty"}

SeqsUpTo(S, n) == UNION {[1..k -> S] : k \in 0..n}

\* The MessageNode values over the node ids `ids`.
MessageNode(ids) == [parent : ids \cup {Dangling, NULL},
                     children : SeqsUpTo(ids, MaxChildren),
                     message : MsgKinds]

\* Arbitrary mappings, cycles and dangling parents included, have two nodes.
SmallIds == {"A", "B"}
ArbitraryMappings == [SmallIds -> MessageNode(SmallIds)]

\* Tree-shaped mappings have four nodes.
TreeIds == {Keys[k] : k \in 1..Len(Keys)}

RECURSIVE Up(_, _, _)
\* The node n parent links above k (NULL once the root is passed).
Up(p, k, n) == IF k = NULL \/ n = 0 THEN k ELSE Up(p, p[k], n - 1)

\* Parent links of a tree: one root, and every node below it.
ParentMaps ==
  {p \in [TreeIds -> TreeIds \cup {NULL}] :
     /\ Cardinality({k \in TreeIds : p[k] = NULL}) = 1
     /\ \A k \in TreeIds : Up(p, k, Cardinality(TreeIds)) = NULL}

Kids(p, k) == {c \in TreeIds : p[c] = k}

\* The orders a children array can list the set S in.
Perms(S) ==
  {q \in [1..Cardinality(S) -> S] :
     \A x, y \in 1..Cardinality(S) : x # y => q[x] # q[y]}

\* The children arrays that agree with the parent links p.
ChildOrders(p) ==
  {[A |-> a, B |-> b, C |-> c, D |-> d] :
     a \in Perms(Kids(p, "A")), b \in Perms(Kids(p, "B")),
     c \in Perms(Kids(p, "C")), d \in Perms(Kids(p, "D"))}

\* The tree with parent links p, children arrays c and messages m: each node
\* but the root is listed once, by its parent.
TreeMapping(p, c, m) ==
  [k \in TreeIds |-> [parent |-> p[k], children |-> c[k], message |-> m[k]]]

VARIABLES
  mapping,      \* Record<string, MessageNode>
  currentNode,  \* conversation.current_node
  gpc,          \* position in processConversation
  node,         \* the local `node` of the running traversal (NULL = undefined)
  visited,      \* the local `visited` set of the running descent
  messages,     \* extractMainThread's result so far (message ids)
  branchMsgs,   \* extractBranchThread's result so far
  branches,     \* extractBranches' result so far
  bi, bj,       \* extractBranches: index of the node, index of its child
  visits,       \* history: the nodes the running descent has processed
  walkTick      \* history: parity of the iterations of the walk to the root

gvars == <<mapping, currentNode, gpc, node, visited, messages, branchMsgs,
           branches, bi, bj, visits, walkTick>>

\* Object.values(mapping): the nodes in key order.
NodeOrder == SelectSeq(Keys, LAMBDA k : k \in DOMAIN mapping)
NodeIds == DOMAIN mapping

\* conversation.current_node. A tree has a root, so its current_node is never
\* read.
CurrentNodes(m) ==
  IF DOMAIN m = SmallIds THEN SmallIds \cup {Dangling, NULL} ELSE {NULL}

(***************************************************************************)
(* Path B: scrape requests, enhancedScrape, retryOperation, ProgressStore  *)
(***************************************************************************)

\* Most conversation links an enumeration returns; link ids are 1..MaxLinks.
MaxLinks == 3
\* Largest config.maxRetries a request is run with.
MaxRetries == 3
\* How many scrape requests are served one after the other.
MaxRequests == 2
\* The values of config.saveProgressInterval a request is run with.
SaveIntervals == {1, 2}
\* How many links the enumeration returned when the scraping loop is run on
\* its own.
LoopLinks == 4
\* How many messages one extraction of a conversation can yield.
ExtractedCounts == {0, 1}
\* loginSelectors of the POST handler.
loginSelectors == <<"nav a[href^=/c/]", "aside a[href^=/c/]", "a[href*=/c/]">>

VARIABLES
  config,        \* scraperConfig: maxRetries, saveProgressInterval
  storeWorks,    \* environment: window.localStorage exists and accepts writes
  store,         \* localStorage[PROGRESS_STORAGE_KEY]: None or the JSON record
  requestNo,     \* how many scrape requests have been started
  spc,           \* position of the running request in POST / enhancedScrape
  browser,       \* the Playwright browser handle: "none", "open", "closed"
  loginIdx,      \* POST: index of the login selector being waited for
  err,           \* the error on its way to POST's catch ("" when none)
  progress,      \* enhancedScrape's `progress` (None before it is created)
  allLinks,      \* enhancedScrape's `allLinks` (empty before enumeration)
  linksToScrape, \* enhancedScrape's `linksToScrape`
  loopIdx,       \* the scraping loop's index `i`
  globalIndex,   \* the scraping loop's `globalIndex`
  onProgress,    \* the callback enhancedScrape was given
  rpc,           \* retryOperation: "off", "attempt", "backoff", "returned", "thrown"
  attempt,       \* retryOperation's loop variable
  result,        \* what the operation returned to retryOperation
  resp,          \* the response of the last request (None: none yet)
  invocations,   \* history: invocations of the operation by this retryOperation
  failures,      \* history: how many of them failed
  sleeps,        \* history: backoff sleeps of this retryOperation
  attempted,     \* history: link ids scrapeConversation was called for
  startIds,      \* history: scrapedIds when this enhancedScrape started
  startIndex,    \* history: currentIndex when this enhancedScrape started
  lastSaved,     \* history: argument of this request's last saveProgress call
  loginWaits,    \* history: waitForSelector calls of this request's login wait
  maxConversations \* the request's item cap, known once POST has used it

svars == <<config, storeWorks, store, requestNo, spc, browser, loginIdx, err,
           progress, allLinks, linksToScrape, loopIdx, globalIndex, onProgress, rpc,
           attempt, result, resp, invocations, failures, sleeps, attempted,
           startIds, startIndex, lastSaved, loginWaits, maxConversations>>

\* The variables of one request; the store and the environment outlive it.
reqvars == <<spc, browser, loginIdx, err, progress, allLinks, linksToScrape, loopIdx,
             globalIndex, onProgress, rpc, attempt, result, resp, invocations,
             failures, sleeps, attempted, startIds, startIndex, lastSaved, loginWaits,
             maxConversations>>

\* An absent record: null progress, empty store, no response, no result.
None == [none |-> TRUE]

(***************************************************************************)
(* The helpers of the scraper, applied on their own: smartDelay,           *)
(* calculateDelay, queryWithFallback                                       *)
(***************************************************************************)

VARIABLES
  call,  \* the helper that is called and its arguments (None: no call)
  ret,   \* what the call returned (None: not yet)
  scrollLoop \* the locals of the scroll loop of a scrollSidebarToLoadAll call

hvars == <<call, ret, scrollLoop>>

\* No helper is called on its own.
NoCall == call = None /\ ret = None /\ scrollLoop = None

LinkIds == 1..MaxLinks
\* What findConversationLinks can return: the first k links of the sidebar.
Enumerations == {[k \in 1..n |-> k] : n \in 0..MaxLinks}

ScraperConfig == [maxRetries : 1..MaxRetries, saveProgressInterval : SaveIntervals]

Min(a, b) == IF a <= b THEN a ELSE b

\* The progress record of a new session, lines 518-527.
NewProgress(sid) ==
  [sessionId |-> sid, totalConversations |-> 0, scrapedConversations |-> <<>>,
   scrapedIds |-> <<>>, failedConversations |-> <<>>, currentIndex |-> 0,
   isComplete |-> FALSE]

\* Variant: a ScrapedConversation that does not carry the id of its link.
ScrapedConversationAnonymous(id, count) ==
  [id |-> 0, messages |-> count, updatedAt |-> "Date"]

\* The ScrapedConversation page.evaluate returns, lines 396-402: updatedAt is a
\* Date object.
ScrapedConversation(id, count) ==
  [id |-> id, messages |-> count, updatedAt |-> "Date"]

\* The FailedConversation of the loop's catch, lines 584-591.
FailedConversation(id) == [id |-> id, retryCount |-> 0]

\* JSON.parse(JSON.stringify(p)): a Date comes back as its ISO string.
JsonRoundTrip(p) ==
  [p EXCEPT !.scrapedConversations =
     [k \in DOMAIN @ |-> [@[k] EXCEPT !.updatedAt = "string"]]]

\* saveProgress: the store after the call; a failing store is left as it is.
saveProgress(p) == IF storeWorks THEN JsonRoundTrip(p) ELSE store

\* Variant: a saveProgress whose catch rethrows the storage error.
saveProgressRethrows == IF storeWorks THEN "written" ELSE "thrown"

\* saveProgress, lines 183-192: how the call ends. The write sits in a try
\* whose catch only logs, and without window.localStorage nothing is written.
saveProgressEnds == IF storeWorks THEN "written" ELSE "swallowed"

\* loadProgress: the stored record, None when there is none or the read fails.
loadProgress == IF storeWorks THEN store ELSE None

\* generateSessionId: one id per request.
generateSessionId == requestNo


vars == <<gvars, svars, hvars>>

\* message.author.role of a message of the kind.
AuthorRole(kind) ==
  CASE kind = "tool" -> "tool"
    [] kind = "system" -> "system"
    [] OTHER -> "user"

\* extractTextContent(message.content) of a message of the kind.
extractTextContent(kind) ==
  CASE kind = "empty" -> ""
    [] kind = "system" -> "You are a helpful assistant"
    [] OTHER -> "Hello"

\* Variant: a processMessage that keeps system messages.
processMessageKeepsSystem(id, kind) ==
  IF extractTextContent(kind) = ""
    THEN None
    ELSE [id |-> id,
          role |-> IF AuthorRole(kind) = "tool" THEN "assistant"
                   ELSE AuthorRole(kind),
          content |-> extractTextContent(kind)]

\* Variant: a processMessage that copies the author's role unchanged.
processMessageKeepsToolRole(id, kind) ==
  IF AuthorRole(kind) = "system" \/ extractTextContent(kind) = ""
    THEN None
    ELSE [id |-> id,
          role |-> AuthorRole(kind),
          content |-> extractTextContent(kind)]

\* processMessage, lines 218-250: the processed message, or None (null) when
\* the message is skipped (system role, empty text). A message carries its
\* node's id.
processMessage(id, kind) ==
  IF AuthorRole(kind) = "system" \/ extractTextContent(kind) = ""
    THEN None
    ELSE [id |-> id,
          role |-> IF AuthorRole(kind) = "tool" THEN "assistant"
                   ELSE AuthorRole(kind),
          content |-> extractTextContent(kind)]

PushMessage(msgs, id) ==
  LET n == mapping[id] IN
  IF n.message # "none" /\ processMessage(id, n.message) # None
    THEN Append(msgs, processMessage(id, n.message))
    ELSE msgs

\* nodes.find(n => n.parent === null): index of the first such node, 0 if none.
FindRootIdx ==
  LET hits == {k \in 1..Len(NodeOrder) : mapping[NodeOrder[k]].parent = NULL}
  IN IF hits = {} THEN 0 ELSE CHOOSE k \in hits : \A h \in hits : k <= h

\* mapping[id] for an id that may name no node.
Resolves(id) == id \in NodeIds

\* No request is being served (the state a module load leaves).
RequestIdle ==
  /\ spc = "idle"
  /\ browser = "none"
  /\ loginIdx = 0
  /\ err = ""
  /\ progress = None
  /\ allLinks = <<>>
  /\ linksToScrape = <<>>
  /\ loopIdx = 0
  /\ globalIndex = 0
  /\ onProgress = "absent"
  /\ rpc = "off"
  /\ attempt = 0
  /\ result = None
  /\ resp = None
  /\ invocations = 0
  /\ failures = 0
  /\ sleeps = 0
  /\ attempted = <<>>
  /\ startIds = <<>>
  /\ startIndex = 0
  /\ lastSaved = None
  /\ loginWaits = 0
  /\ maxConversations = 0

\* The parser runs with no scrape request around.
NoSession ==
  /\ config = [maxRetries |-> 3, saveProgressInterval |-> 5]
  /\ storeWorks = FALSE
  /\ store = None
  /\ requestNo = 0
  /\ RequestIdle

GraphInit ==
  /\ NoSession
  /\ NoCall
  /\ \/ mapping \in ArbitraryMappings
     \/ \E p \in ParentMaps : \E c \in ChildOrders(p) :
          \E m \in [TreeIds -> MsgKinds] : mapping = TreeMapping(p, c, m)
  /\ currentNode \in CurrentNodes(mapping)
  /\ gpc = "find_root"
  /\ node = NULL
  /\ visited = {}
  /\ messages = <<>>
  /\ branchMsgs = <<>>
  /\ branches = <<>>
  /\ bi = 1
  /\ bj = 2
  /\ visits = <<>>
  /\ walkTick = 0

\* extractMainThread, lines 102-120: pick the node the descent starts from.
FindRoot ==
  /\ gpc = "find_root"
  /\ IF FindRootIdx # 0
       THEN /\ node' = NodeOrder[FindRootIdx]
            /\ gpc' = "descend"
       ELSE IF currentNode # NULL /\ Resolves(currentNode)
         THEN /\ node' = currentNode
              /\ gpc' = "walk_up"
         ELSE /\ node' = NodeOrder[1]
              /\ gpc' = "descend"
  /\ UNCHANGED <<mapping, currentNode, visited, messages, branchMsgs, branches,
                 bi, bj, visits, walkTick>>
  /\ UNCHANGED <<svars, hvars>>

\* The loop condition of the walk back to the root, line 113.
WalkUpGuard(n) == n.parent # NULL /\ Resolves(n.parent)

\* One iteration of `while (node.parent && mapping[node.parent])`.
WalkUp ==
  /\ gpc = "walk_up"
  /\ WalkUpGuard(mapping[node])
  /\ node' = mapping[node].parent
  /\ walkTick' = 1 - walkTick
  /\ UNCHANGED <<mapping, currentNode, gpc, visited, messages, branchMsgs,
                 branches, bi, bj, visits>>
  /\ UNCHANGED <<svars, hvars>>

\* The walk's loop condition is false: the descent starts at `node`.
WalkUpEnd ==
  /\ gpc = "walk_up"
  /\ ~WalkUpGuard(mapping[node])
  /\ gpc' = "descend"
  /\ UNCHANGED <<mapping, currentNode, node, visited, messages, branchMsgs,
                 branches, bi, bj, visits, walkTick>>
  /\ UNCHANGED <<svars, hvars>>

\* `if (visited.has(node.id)) break;` of both descents.
VisitedGuard(id, seen) == id \in seen

\* Variant: a descent that follows the last child.
FirstChildTakesLast(id) ==
  IF Len(mapping[id].children) > 0
    THEN mapping[id].children[Len(mapping[id].children)]
    ELSE NULL

\* node = mapping[node.children[0]], or the loop's break when there is none.
FirstChild(id) ==
  IF Len(mapping[id].children) > 0 THEN mapping[id].children[1] ELSE NULL

\* One iteration of the main-thread descent, lines 125-147.
MainStep ==
  /\ gpc = "descend"
  /\ node # NULL
  /\ ~VisitedGuard(node, visited)
  /\ visited' = visited \cup {node}
  /\ visits' = Append(visits, node)
  /\ messages' = PushMessage(messages, node)
  /\ IF FirstChild(node) # NULL
       THEN /\ node' = FirstChild(node)
            /\ gpc' = "descend"
       ELSE /\ node' = node
            /\ gpc' = "main_done"
  /\ UNCHANGED <<mapping, currentNode, branchMsgs, branches, bi, bj, walkTick>>
  /\ UNCHANGED <<svars, hvars>>

\* The descent's loop ends on an undefined node or on a visited one.
MainBreak ==
  /\ gpc = "descend"
  /\ (node = NULL \/ VisitedGuard(node, visited))
  /\ gpc' = "main_done"
  /\ UNCHANGED <<mapping, currentNode, node, visited, messages, branchMsgs,
                 branches, bi, bj, visits, walkTick>>
  /\ UNCHANGED <<svars, hvars>>

\* new Set(mainThread.map(m => m.id))
mainThreadIds == {messages[k].id : k \in 1..Len(messages)}

\* extractBranches is entered: lines 159-163.
BranchesBegin ==
  /\ gpc = "main_done"
  /\ gpc' = "branch_scan"
  /\ bi' = 1
  /\ bj' = 2
  /\ branches' = <<>>
  /\ UNCHANGED <<mapping, currentNode, node, visited, messages, branchMsgs, visits, walkTick>>
  /\ UNCHANGED <<svars, hvars>>

\* forEach over the nodes and over children.slice(1): the next branch root,
\* or the next node when this one has no further child.
BranchScan ==
  /\ gpc = "branch_scan"
  /\ bi <= Len(NodeOrder)
  /\ LET kids == mapping[NodeOrder[bi]].children IN
     IF Len(kids) > 1 /\ bj <= Len(kids)
       THEN /\ node' = kids[bj]
            /\ visited' = {}
            /\ visits' = <<>>
            /\ branchMsgs' = <<>>
            /\ gpc' = "branch_descend"
            /\ UNCHANGED <<bi, bj>>
       ELSE /\ bi' = bi + 1
            /\ bj' = 2
            /\ UNCHANGED <<node, visited, visits, branchMsgs, gpc>>
  /\ UNCHANGED <<mapping, currentNode, messages, branches, walkTick>>
  /\ UNCHANGED <<svars, hvars>>

\* extractBranches returns.
BranchesEnd ==
  /\ gpc = "branch_scan"
  /\ bi > Len(NodeOrder)
  /\ gpc' = "done"
  /\ UNCHANGED <<mapping, currentNode, node, visited, messages, branchMsgs,
                 branches, bi, bj, visits, walkTick>>
  /\ UNCHANGED <<svars, hvars>>

\* Variant: a branch descent that does not stop at the main thread.
BranchContinuesPastMainThread ==
  /\ node # NULL
  /\ ~VisitedGuard(node, visited)

\* The loop condition of extractBranchThread, lines 194-195.
BranchContinues ==
  /\ node # NULL
  /\ node \notin mainThreadIds
  /\ ~VisitedGuard(node, visited)

\* One iteration of extractBranchThread's loop, lines 194-210.
BranchStep ==
  /\ gpc = "branch_descend"
  /\ BranchContinues
  /\ visited' = visited \cup {node}
  /\ visits' = Append(visits, node)
  /\ branchMsgs' = PushMessage(branchMsgs, node)
  /\ IF FirstChild(node) # NULL
       THEN /\ node' = FirstChild(node)
            /\ UNCHANGED <<gpc, branches, bj>>
       ELSE \* break: the branch is complete
            /\ node' = node
            /\ gpc' = "branch_scan"
            /\ bj' = bj + 1
            /\ branches' =
                 IF Len(branchMsgs') > 0
                   THEN Append(branches,
                               [id |-> mapping[NodeOrder[bi]].children[bj],
                                parentMessageId |-> NodeOrder[bi],
                                messages |-> branchMsgs'])
                   ELSE branches
  /\ UNCHANGED <<mapping, currentNode, messages, bi, walkTick>>
  /\ UNCHANGED <<svars, hvars>>

\* extractBranchThread's loop ends by its condition; lines 168-174 keep the
\* branch when it has a message.
BranchEnd ==
  /\ gpc = "branch_descend"
  /\ ~BranchContinues
  /\ gpc' = "branch_scan"
  /\ bj' = bj + 1
  /\ branches' =
       IF Len(branchMsgs) > 0
         THEN Append(branches,
                     [id |-> mapping[NodeOrder[bi]].children[bj],
                      parentMessageId |-> NodeOrder[bi],
                      messages |-> branchMsgs])
         ELSE branches
  /\ UNCHANGED <<mapping, currentNode, node, visited, messages, branchMsgs, bi, visits, walkTick>>
  /\ UNCHANGED <<svars, hvars>>

\* What processConversation returns of the threads, lines 74-92, once both
\* extractions have returned: the branches field is left undefined (absent
\* here) when no branch was kept.
processConversation ==
  IF Len(branches) > 0
    THEN [messageCount |-> Len(messages),
          messages |-> messages,
          branches |-> branches]
    ELSE [messageCount |-> Len(messages),
          messages |-> messages]

GraphNext ==
  \/ FindRoot
  \/ WalkUp
  \/ WalkUpEnd
  \/ MainStep
  \/ MainBreak
  \/ BranchesBegin
  \/ BranchScan
  \/ BranchesEnd
  \/ BranchStep
  \/ BranchEnd

GraphSpec == GraphInit /\ [][GraphNext]_vars

\* processConversation is synchronous code: it keeps running until it returns.
FairGraphSpec == GraphSpec /\ WF_vars(GraphNext)

(***************************************************************************)
(* Path B: actions                                                         *)
(***************************************************************************)

SessionInit ==
  /\ config \in ScraperConfig
  /\ storeWorks \in BOOLEAN
  /\ store = None
  /\ requestNo = 0
  /\ RequestIdle

\* retryOperation is entered: `lastError = null`, `attempt = 0`.
RetryEnter ==
  /\ rpc' = "attempt"
  /\ attempt' = 0
  /\ result' = None
  /\ invocations' = 0
  /\ failures' = 0
  /\ sleeps' = 0

\* The caller has taken retryOperation's outcome.
RetryLeave ==
  /\ rpc' = "off"
  /\ attempt' = 0
  /\ result' = None
  /\ invocations' = 0
  /\ failures' = 0
  /\ sleeps' = 0

\* Variant: a loop that takes the links from the end of the list.
linkFromTheEnd == linksToScrape[Len(linksToScrape) - loopIdx]

\* The link the scraping loop is at.
link == linksToScrape[loopIdx + 1]

\* Variant: a scrapeConversation that returns a conversation without messages.
OperationOutcomesKeepsEmpty(op) ==
  CASE op = "scroll" -> {[throws |-> t, value |-> "void"] : t \in BOOLEAN}
    [] op = "find" -> {[throws |-> TRUE, value |-> <<>>]}
                        \cup {[throws |-> FALSE, value |-> L] : L \in Enumerations}
    [] op = "item" -> {[throws |-> TRUE, value |-> 0]}
                        \cup {[throws |-> FALSE, value |-> c] : c \in ExtractedCounts}

\* What one invocation of the wrapped operation can do.
\*   scroll: scrollSidebarToLoadAll's body, throws without a sidebar selector;
\*   find:   findConversationLinks' body, throws without a link selector;
\*   item:   scrapeConversation's body, throws on a navigation timeout, without
\*           a message selector, and when no message was extracted (line 414).
OperationOutcomes(op) ==
  CASE op = "scroll" -> {[throws |-> t, value |-> "void"] : t \in BOOLEAN}
    [] op = "find" -> {[throws |-> TRUE, value |-> <<>>]}
                        \cup {[throws |-> FALSE, value |-> L] : L \in Enumerations}
    [] op = "item" -> {[throws |-> TRUE, value |-> 0]}
                        \cup {[throws |-> (c = 0), value |-> c] : c \in ExtractedCounts}

\* Variant: a retryOperation that sleeps after every failure, the last included.
SleepsAfterEveryFailure(k) == k < config.maxRetries

\* `attempt < config.maxRetries - 1`: a backoff sleep follows this failure.
SleepsAfter(k) == k < config.maxRetries - 1

\* Variant: a retry loop whose counter does not advance.
NextAttemptStays(k) == k

\* The loop's attempt++ of line 241.
NextAttempt(k) == k + 1

\* retryOperation, lines 241-256: one pass of the loop body up to the sleep.
RetryAttempt ==
  /\ rpc = "attempt"
  /\ attempt < config.maxRetries
  /\ \E o \in OperationOutcomes(spc) :
       /\ invocations' = invocations + 1
       /\ IF ~o.throws
            THEN /\ rpc' = "returned"
                 /\ result' = [value |-> o.value]
                 /\ UNCHANGED <<attempt, failures>>
            ELSE /\ failures' = failures + 1
                 /\ result' = None
                 /\ IF SleepsAfter(attempt)
                      THEN /\ rpc' = "backoff"
                           /\ UNCHANGED attempt
                      ELSE /\ rpc' = "attempt"
                           /\ attempt' = NextAttempt(attempt)
  /\ UNCHANGED <<config, maxConversations, storeWorks, store, requestNo, spc, browser, loginIdx,
                 err, progress, allLinks, linksToScrape, loopIdx, globalIndex,
                 onProgress, resp, sleeps, attempted, startIds, startIndex, lastSaved,
                 loginWaits>>
  /\ UNCHANGED <<gvars, hvars>>

\* `await sleep(delay)` of line 253, then the loop's attempt++.
RetrySleep ==
  /\ rpc = "backoff"
  /\ sleeps' = sleeps + 1
  /\ attempt' = NextAttempt(attempt)
  /\ rpc' = "attempt"
  /\ UNCHANGED <<config, maxConversations, storeWorks, store, requestNo, spc, browser, loginIdx,
                 err, progress, allLinks, linksToScrape, loopIdx, globalIndex,
                 onProgress, result, resp, invocations, failures, attempted,
                 startIds, startIndex, lastSaved, loginWaits>>
  /\ UNCHANGED <<gvars, hvars>>

\* The loop is over: line 258 throws.
RetryThrow ==
  /\ rpc = "attempt"
  /\ ~(attempt < config.maxRetries)
  /\ rpc' = "thrown"
  /\ UNCHANGED <<config, maxConversations, storeWorks, store, requestNo, spc, browser, loginIdx,
                 err, progress, allLinks, linksToScrape, loopIdx, globalIndex,
                 onProgress, attempt, result, resp, invocations, failures,
                 sleeps, attempted, startIds, startIndex, lastSaved, loginWaits>>
  /\ UNCHANGED <<gvars, hvars>>


\* The first n elements of a sequence: Array.prototype.slice(0, n), 0 <= n.
Slice(q, n) == SubSeq(q, 1, Min(n, Len(q)))

\* The ids held by an array of ids.
Ids(q) == {q[k] : k \in 1..Len(q)}

RECURSIVE SumMessages(_)
\* conversations.reduce((sum, c) => sum + c.messages.length, 0)
SumMessages(q) ==
  IF q = <<>> THEN 0 ELSE q[1].messages + SumMessages(Tail(q))

\* POST, lines 242-264: the request is parsed, the browser launched, a page
\* opened.
PostStart ==
  /\ spc = "idle"
  /\ requestNo < MaxRequests
  /\ requestNo' = requestNo + 1
  /\ spc' = "goto"
  /\ browser' = "open"
  /\ loginIdx' = 0
  /\ err' = ""
  /\ progress' = None
  /\ allLinks' = <<>>
  /\ linksToScrape' = <<>>
  /\ loopIdx' = 0
  /\ globalIndex' = 0
  /\ onProgress' = "absent"
  /\ RetryLeave
  /\ resp' = None
  /\ attempted' = <<>>
  /\ startIds' = <<>>
  /\ startIndex' = 0
  /\ lastSaved' = None
  /\ loginWaits' = 0
  /\ maxConversations' = 0
  /\ UNCHANGED <<config, storeWorks, store>>
  /\ UNCHANGED <<gvars, hvars>>

\* page.goto of lines 268-271 returns.
GotoOk ==
  /\ spc = "goto"
  /\ spc' = "login"
  /\ loginIdx' = 1
  /\ UNCHANGED <<config, maxConversations, storeWorks, store, requestNo, browser, err, progress,
                 allLinks, linksToScrape, loopIdx, globalIndex, onProgress,
                 rpc, attempt, result, resp, invocations, failures, sleeps,
                 attempted, startIds, startIndex, lastSaved, loginWaits>>
  /\ UNCHANGED <<gvars, hvars>>

\* page.goto throws (navigation timeout).
GotoFails ==
  /\ spc = "goto"
  /\ spc' = "post_catch"
  /\ err' = "navigation"
  /\ UNCHANGED <<config, maxConversations, storeWorks, store, requestNo, browser, loginIdx,
                 progress, allLinks, linksToScrape, loopIdx, globalIndex,
                 onProgress, rpc, attempt, result, resp, invocations,
                 failures, sleeps, attempted, startIds, startIndex, lastSaved,
                 loginWaits>>
  /\ UNCHANGED <<gvars, hvars>>

\* Lines 285-292: the selector being waited for resolves.
LoginDetected ==
  /\ spc = "login"
  /\ loginWaits' = loginWaits + 1
  /\ spc' = "es_start"
  /\ UNCHANGED <<config, maxConversations, storeWorks, store, requestNo, browser, loginIdx, err,
                 progress, allLinks, linksToScrape, loopIdx, globalIndex,
                 onProgress, rpc, attempt, result, resp, invocations,
                 failures, sleeps, attempted, startIds, startIndex, lastSaved>>
  /\ UNCHANGED <<gvars, hvars>>

\* Variant: a login wait whose last timeout lets the request go on.
AfterLoginTimeoutProceeds(k) ==
  IF k < Len(loginSelectors) THEN "login" ELSE "es_start"

\* What follows a login selector that did not resolve within its 120 s: the
\* next selector, and after the last one the throw of line 299 (rethrown by
\* line 302).
AfterLoginTimeout(k) ==
  IF k < Len(loginSelectors) THEN "login" ELSE "post_catch"

\* Lines 293-303: waitForSelector times out.
LoginSelectorTimeout ==
  /\ spc = "login"
  /\ loginWaits' = loginWaits + 1
  /\ spc' = AfterLoginTimeout(loginIdx)
  /\ IF spc' = "login"
       THEN loginIdx' = loginIdx + 1 /\ UNCHANGED err
       ELSE err' = "login timeout" /\ UNCHANGED loginIdx
  /\ UNCHANGED <<config, maxConversations, storeWorks, store, requestNo, browser, progress,
                 allLinks, linksToScrape, loopIdx, globalIndex, onProgress,
                 rpc, attempt, result, resp, invocations, failures, sleeps,
                 attempted, startIds, startIndex, lastSaved>>
  /\ UNCHANGED <<gvars, hvars>>

\* The progress enhancedScrape works on, lines 511-528: the stored record when
\* there is one that is not complete, a new one otherwise.
InitialProgress ==
  LET loaded == loadProgress IN
  IF loaded # None /\ ~loaded.isComplete
    THEN loaded
    ELSE NewProgress(generateSessionId)

\* enhancedScrape is called (POST line 308) and runs to its first await: the
\* call of scrollSidebarToLoadAll.
EsBegin ==
  /\ spc = "es_start"
  /\ progress' = InitialProgress
  /\ startIds' = progress'.scrapedIds
  /\ startIndex' = progress'.currentIndex
  /\ onProgress' = "absent"
  /\ spc' = "scroll"
  /\ RetryEnter
  /\ UNCHANGED <<config, maxConversations, storeWorks, store, requestNo, browser, loginIdx, err,
                 allLinks, linksToScrape, loopIdx, globalIndex, resp,
                 attempted, lastSaved, loginWaits>>
  /\ UNCHANGED <<gvars, hvars>>

\* scrollSidebarToLoadAll returned; findConversationLinks is called.
ScrollDone ==
  /\ spc = "scroll"
  /\ rpc = "returned"
  /\ spc' = "find"
  /\ RetryEnter
  /\ UNCHANGED <<config, maxConversations, storeWorks, store, requestNo, browser, loginIdx, err,
                 progress, allLinks, linksToScrape, loopIdx, globalIndex,
                 onProgress, resp, attempted, startIds, startIndex, lastSaved,
                 loginWaits>>
  /\ UNCHANGED <<gvars, hvars>>

\* Variant: a resume that does not filter the enumerated links.
FilterLinksKeepsAll(links, scrapedIds) == links

\* Line 543: the links whose id is not in scrapedIds, in enumeration order.
FilterLinks(links, scrapedIds) ==
  SelectSeq(links, LAMBDA id : id \notin Ids(scrapedIds))

\* findConversationLinks returned: lines 537-548 up to the loop's head.
FindDone ==
  /\ spc = "find"
  /\ rpc = "returned"
  /\ allLinks' = result.value
  /\ progress' = [progress EXCEPT !.totalConversations = Len(allLinks')]
  /\ linksToScrape' = FilterLinks(allLinks', progress.scrapedIds)
  /\ loopIdx' = 0
  /\ spc' = "loop"
  /\ RetryLeave
  /\ UNCHANGED <<config, maxConversations, storeWorks, store, requestNo, browser, loginIdx, err,
                 globalIndex, onProgress, resp, attempted, startIds, startIndex,
                 lastSaved, loginWaits>>
  /\ UNCHANGED <<gvars, hvars>>

\* Variant: an outer catch that rethrows without saving the progress.
EsCatchWithoutSave ==
  /\ spc \in {"scroll", "find"}
  /\ rpc = "thrown"
  /\ store' = store
  /\ lastSaved' = lastSaved
  /\ err' = "enumeration"
  /\ spc' = "post_catch"
  /\ RetryLeave
  /\ UNCHANGED <<config, maxConversations, storeWorks, requestNo, browser, loginIdx, progress,
                 allLinks, linksToScrape, loopIdx, globalIndex, onProgress,
                 resp, attempted, startIds, startIndex, loginWaits>>
  /\ UNCHANGED <<gvars, hvars>>

\* The outer catch of enhancedScrape, lines 609-613: scroll or enumeration
\* threw after its retries; the progress is saved and the error rethrown.
EsCatch ==
  /\ spc \in {"scroll", "find"}
  /\ rpc = "thrown"
  /\ store' = saveProgress(progress)
  /\ lastSaved' = progress
  /\ err' = IF saveProgressEnds = "thrown" THEN "storage" ELSE "enumeration"
  /\ spc' = "post_catch"
  /\ RetryLeave
  /\ UNCHANGED <<config, maxConversations, storeWorks, requestNo, browser, loginIdx, progress,
                 allLinks, linksToScrape, loopIdx, globalIndex, onProgress,
                 resp, attempted, startIds, startIndex, loginWaits>>
  /\ UNCHANGED <<gvars, hvars>>

\* Variant: a scraping loop that stops one item early.
LoopStopsEarly == loopIdx < Len(linksToScrape) - 1

\* The loop condition of line 548.
LoopContinues == loopIdx < Len(linksToScrape)

\* Lines 549-556: the next link is taken and scrapeConversation called.
ItemBegin ==
  /\ spc = "loop"
  /\ LoopContinues
  /\ globalIndex' = progress.currentIndex + loopIdx
  /\ attempted' = Append(attempted, link)
  /\ spc' = "item"
  /\ RetryEnter
  /\ UNCHANGED <<config, maxConversations, storeWorks, store, requestNo, browser, loginIdx, err,
                 progress, allLinks, linksToScrape, loopIdx, onProgress, resp,
                 startIds, startIndex, lastSaved, loginWaits>>
  /\ UNCHANGED <<gvars, hvars>>

\* Line 565: this iteration saves the progress.
SavesNow(k) == (k + 1) % config.saveProgressInterval = 0

\* Variant: a catch block that keeps only the latest failed conversation.
WithFailureReplacingList(p, id) ==
  [p EXCEPT !.failedConversations = <<FailedConversation(id)>>]

\* Variant: a catch block that does not record the failed conversation.
WithFailureDropped(p, id) == p

\* The progress after the loop's catch block, lines 584-592.
WithFailure(p, id) ==
  [p EXCEPT !.failedConversations = Append(@, FailedConversation(id))]

\* scrapeConversation returned: lines 559-578, and the catch of lines 580-595
\* when the save or the callback throws.
ItemScraped ==
  /\ spc = "item"
  /\ rpc = "returned"
  /\ LET conversation == ScrapedConversation(link, result.value)
         pushed == [progress EXCEPT
                      !.scrapedConversations = Append(@, conversation),
                      !.scrapedIds = Append(@, link)]
         saved == IF SavesNow(loopIdx)
                    THEN [pushed EXCEPT !.currentIndex = globalIndex + 1]
                    ELSE pushed
     IN /\ store' = IF SavesNow(loopIdx) THEN saveProgress(saved) ELSE store
        /\ lastSaved' = IF SavesNow(loopIdx) THEN saved ELSE lastSaved
        /\ IF \/ SavesNow(loopIdx) /\ saveProgressEnds = "thrown"
              \/ onProgress = "throws"
             THEN /\ progress' = WithFailure(saved, link)
                  /\ loopIdx' = loopIdx + 1
                  /\ spc' = "loop"
             ELSE /\ progress' = saved
                  /\ IF loopIdx < Len(linksToScrape) - 1
                       THEN spc' = "delay" /\ UNCHANGED loopIdx
                       ELSE spc' = "loop" /\ loopIdx' = loopIdx + 1
  /\ RetryLeave
  /\ UNCHANGED <<config, maxConversations, storeWorks, requestNo, browser, loginIdx, err,
                 allLinks, linksToScrape, globalIndex, onProgress, resp,
                 attempted, startIds, startIndex, loginWaits>>
  /\ UNCHANGED <<gvars, hvars>>

\* smartDelay's sleep is over, line 577; the loop's i++.
SmartDelayDone ==
  /\ spc = "delay"
  /\ loopIdx' = loopIdx + 1
  /\ spc' = "loop"
  /\ UNCHANGED <<config, maxConversations, storeWorks, store, requestNo, browser, loginIdx, err,
                 progress, allLinks, linksToScrape, globalIndex, onProgress,
                 rpc, attempt, result, resp, invocations, failures, sleeps,
                 attempted, startIds, startIndex, lastSaved, loginWaits>>
  /\ UNCHANGED <<gvars, hvars>>

\* scrapeConversation threw after its retries: the catch of lines 580-595.
ItemFailed ==
  /\ spc = "item"
  /\ rpc = "thrown"
  /\ progress' = WithFailure(progress, link)
  /\ loopIdx' = loopIdx + 1
  /\ spc' = "loop"
  /\ RetryLeave
  /\ UNCHANGED <<config, maxConversations, storeWorks, store, requestNo, browser, loginIdx, err,
                 allLinks, linksToScrape, globalIndex, onProgress, resp,
                 attempted, startIds, startIndex, lastSaved, loginWaits>>
  /\ UNCHANGED <<gvars, hvars>>

\* The record of lines 599-600.
Completed(p) ==
  [p EXCEPT !.isComplete = TRUE, !.currentIndex = Len(allLinks)]

\* The loop is over: lines 598-607 (and 609-613 if the save throws).
Complete ==
  /\ spc = "loop"
  /\ ~LoopContinues
  /\ progress' = Completed(progress)
  /\ store' = saveProgress(progress')
  /\ lastSaved' = progress'
  /\ IF saveProgressEnds = "thrown"
       THEN \* the outer catch saves again, and that throw leaves the function
            spc' = "post_catch" /\ err' = "storage"
       ELSE spc' = "es_returned" /\ UNCHANGED err
  /\ UNCHANGED <<config, maxConversations, storeWorks, requestNo, browser, loginIdx,
                 allLinks, linksToScrape, loopIdx, globalIndex, onProgress,
                 rpc, attempt, result, resp, invocations, failures, sleeps,
                 attempted, startIds, startIndex, loginWaits>>
  /\ UNCHANGED <<gvars, hvars>>

\* The body of the success response, lines 314-342, for the request's
\* maxConversations cap.
SuccessResponse(p, cap) ==
  LET conversations == IF cap > 0
                         THEN Slice(p.scrapedConversations, cap)
                         ELSE p.scrapedConversations
  IN [success |-> TRUE,
      conversations |-> conversations,
      statistics |->
        [totalConversations |-> p.totalConversations,
         successfulConversations |-> Len(p.scrapedConversations),
         failedConversations |-> Len(p.failedConversations),
         totalMessages |-> SumMessages(conversations)],
      failed |-> p.failedConversations,
      progress |-> [isComplete |-> p.isComplete, sessionId |-> p.sessionId]]

\* The body of the error response, lines 351-355.
ErrorResponse(e) ==
  [success |-> FALSE, error |-> e, conversations |-> <<>>]

\* enhancedScrape returned: POST lines 314-342. maxConversations was read from
\* the request at line 247 and is not used before line 316.
PostRespond ==
  /\ spc = "es_returned"
  /\ \E cap \in 0..MaxLinks :
       /\ maxConversations' = cap
       /\ resp' = SuccessResponse(progress, cap)
  /\ browser' = "closed"
  /\ spc' = "idle"
  /\ UNCHANGED <<config, storeWorks, store, requestNo, loginIdx, err,
                 progress, allLinks, linksToScrape, loopIdx, globalIndex,
                 onProgress, rpc, attempt, result, invocations, failures,
                 sleeps, attempted, startIds, startIndex, lastSaved, loginWaits>>
  /\ UNCHANGED <<gvars, hvars>>

\* Variant: a catch that responds without closing the browser.
PostCatchLeavesBrowser ==
  /\ spc = "post_catch"
  /\ browser' = browser
  /\ resp' = ErrorResponse(err)
  /\ spc' = "idle"
  /\ UNCHANGED <<config, maxConversations, storeWorks, store, requestNo, loginIdx, err,
                 progress, allLinks, linksToScrape, loopIdx, globalIndex,
                 onProgress, rpc, attempt, result, invocations, failures,
                 sleeps, attempted, startIds, startIndex, lastSaved, loginWaits>>
  /\ UNCHANGED <<gvars, hvars>>

\* POST's catch, lines 344-356.
PostCatch ==
  /\ spc = "post_catch"
  /\ browser' = IF browser = "open" THEN "closed" ELSE browser
  /\ resp' = ErrorResponse(err)
  /\ spc' = "idle"
  /\ UNCHANGED <<config, maxConversations, storeWorks, store, requestNo, loginIdx, err,
                 progress, allLinks, linksToScrape, loopIdx, globalIndex,
                 onProgress, rpc, attempt, result, invocations, failures,
                 sleeps, attempted, startIds, startIndex, lastSaved, loginWaits>>
  /\ UNCHANGED <<gvars, hvars>>

\* The route's process ends while a request is running (maxDuration = 300 s,
\* a server restart): nothing of the request is left but the store.
Killed ==
  /\ spc # "idle"
  /\ spc' = "idle"
  /\ browser' = "none"
  /\ loginIdx' = 0
  /\ err' = ""
  /\ progress' = None
  /\ allLinks' = <<>>
  /\ linksToScrape' = <<>>
  /\ loopIdx' = 0
  /\ globalIndex' = 0
  /\ onProgress' = "absent"
  /\ RetryLeave
  /\ resp' = None
  /\ attempted' = <<>>
  /\ startIds' = <<>>
  /\ startIndex' = 0
  /\ lastSaved' = None
  /\ loginWaits' = 0
  /\ maxConversations' = 0
  /\ UNCHANGED <<config, storeWorks, store, requestNo>>
  /\ UNCHANGED <<gvars, hvars>>

\* clearProgress, called by the client between requests.
clearProgress ==
  /\ spc = "idle"
  /\ store' = IF storeWorks THEN None ELSE store
  /\ UNCHANGED <<config, maxConversations, storeWorks, requestNo, spc, browser, loginIdx, err,
                 progress, allLinks, linksToScrape, loopIdx, globalIndex,
                 onProgress, rpc, attempt, result, resp, invocations,
                 failures, sleeps, attempted, startIds, startIndex, lastSaved,
                 loginWaits>>
  /\ UNCHANGED <<gvars, hvars>>

SessionNext ==
  \/ PostStart
  \/ GotoOk
  \/ GotoFails
  \/ LoginDetected
  \/ LoginSelectorTimeout
  \/ EsBegin
  \/ RetryAttempt
  \/ RetrySleep
  \/ RetryThrow
  \/ ScrollDone
  \/ FindDone
  \/ EsCatch
  \/ ItemBegin
  \/ ItemScraped
  \/ SmartDelayDone
  \/ ItemFailed
  \/ Complete
  \/ PostRespond
  \/ PostCatch
  \/ Killed
  \/ clearProgress

\* The parser is not running.
NoParse ==
  /\ mapping = [n \in SmallIds |-> [parent |-> NULL, children |-> <<>>, message |-> "none"]]
  /\ currentNode = NULL
  /\ gpc = "off"
  /\ node = NULL
  /\ visited = {}
  /\ messages = <<>>
  /\ branchMsgs = <<>>
  /\ branches = <<>>
  /\ bi = 1
  /\ bj = 2
  /\ visits = <<>>
  /\ walkTick = 0

Init == SessionInit /\ NoParse /\ NoCall

Next == SessionNext

Spec == Init /\ [][Next]_vars

\* A request is one asynchronous function whose awaits all return or time out.
FairSpec == Spec /\ WF_vars(Next)

\* The callbacks a caller can hand to enhancedScrape (line 505): none, one
\* that returns, one that throws.
Callbacks == {"absent", "returns", "throws"}

\* enhancedScrape at the head of its scraping loop (line 548) in a new
\* session: no record was stored (lines 518-527), the enumeration returned
\* LoopLinks links (lines 537-543), nothing is scraped yet.
LoopInit ==
  /\ config \in ScraperConfig
  /\ storeWorks \in BOOLEAN
  /\ store = None
  /\ requestNo = 1
  /\ spc = "loop"
  /\ browser = "open"
  /\ loginIdx = 0
  /\ err = ""
  /\ allLinks = [k \in 1..LoopLinks |-> k]
  /\ progress = [NewProgress(generateSessionId) EXCEPT
                   !.totalConversations = Len(allLinks)]
  /\ linksToScrape = FilterLinks(allLinks, progress.scrapedIds)
  /\ loopIdx = 0
  /\ globalIndex = 0
  /\ onProgress \in Callbacks
  /\ rpc = "off"
  /\ attempt = 0
  /\ result = None
  /\ resp = None
  /\ invocations = 0
  /\ failures = 0
  /\ sleeps = 0
  /\ attempted = <<>>
  /\ startIds = <<>>
  /\ startIndex = 0
  /\ lastSaved = None
  /\ loginWaits = 0
  /\ maxConversations = 0
  /\ NoParse
  /\ NoCall

\* The scraping loop of enhancedScrape, lines 548-607.
LoopNext ==
  \/ ItemBegin
  \/ RetryAttempt
  \/ RetrySleep
  \/ RetryThrow
  \/ ItemScraped
  \/ SmartDelayDone
  \/ ItemFailed
  \/ Complete

LoopSpec == LoopInit /\ [][LoopNext]_vars


(***************************************************************************)
(* The helpers: delays are JavaScript numbers, modelled as exact fractions *)
(***************************************************************************)

RECURSIVE Gcd(_, _)
Gcd(a, b) == IF b = 0 THEN a ELSE Gcd(b, a % b)

\* The number n / d (d > 0), in lowest terms.
Q(n, d) == LET g == Gcd(n, d) IN [n |-> n \div g, d |-> d \div g]

QAdd(a, b) == Q(a.n * b.d + b.n * a.d, a.d * b.d)
QMul(a, b) == Q(a.n * b.n, a.d * b.d)
QLe(a, b) == a.n * b.d <= b.n * a.d
\* Math.min
QMin(a, b) == IF QLe(a, b) THEN a ELSE b

RECURSIVE QPow(_, _)
\* Math.pow(a, k) for an integer k >= 0
QPow(a, k) == IF k = 0 THEN Q(1, 1) ELSE QMul(a, QPow(a, k - 1))

\* How finely Math.random() is drawn: the values r / RandomSteps, 0 <= r < RandomSteps.
RandomSteps == 4
Randoms == 0..(RandomSteps - 1)
\* Math.random() for the draw r.
MathRandom(r) == Q(r, RandomSteps)

\* The delay settings a call is made with (milliseconds), those of
\* DEFAULT_SCRAPER_CONFIG among them; backoffMultiplier 1.5 is 3/2.
DelayConfigs ==
  [minDelay : {1000, 1500}, maxDelay : {2000, 4000}, jitterRange : {0, 500},
   backoffMultiplier : {Q(3, 2), Q(2, 1)}]

\* The values of conversationIndex smartDelay is called with.
ConversationIndexes == {0, 1, 2, 100, 200, 400}

\* Variant: a smartDelay without the cap at maxDelay.
smartDelayUncapped(conversationIndex, r, cfg) ==
  LET baseDelay == QAdd(Q(cfg.minDelay, 1),
                        QMul(MathRandom(r), Q(cfg.jitterRange, 1)))
      progressMultiplier == QAdd(Q(1, 1),
                                 QMul(Q(conversationIndex, 100), Q(1, 2)))
  IN QMul(baseDelay, progressMultiplier)

\* smartDelay, lines 480-494: the time it sleeps, for the draw r of
\* Math.random().
smartDelay(conversationIndex, r, cfg) ==
  LET baseDelay == QAdd(Q(cfg.minDelay, 1),
                        QMul(MathRandom(r), Q(cfg.jitterRange, 1)))
      progressMultiplier == QAdd(Q(1, 1),
                                 QMul(Q(conversationIndex, 100), Q(1, 2)))
      totalDelay == QMin(QMul(baseDelay, progressMultiplier),
                         Q(cfg.maxDelay, 1))
  IN totalDelay

\* Variant: a calculateDelay that adds the jitter before the cap.
calculateDelayCapsJitter(k, r, cfg) ==
  LET baseDelay == QMul(Q(cfg.minDelay, 1), QPow(cfg.backoffMultiplier, k))
      jitter == QMul(MathRandom(r), Q(cfg.jitterRange, 1))
  IN QMin(QAdd(baseDelay, jitter), Q(cfg.maxDelay, 1))

\* calculateDelay, lines 134-142, for the attempt k and the draw r.
calculateDelay(k, r, cfg) ==
  LET baseDelay == QMul(Q(cfg.minDelay, 1), QPow(cfg.backoffMultiplier, k))
      delay == QMin(baseDelay, Q(cfg.maxDelay, 1))
      jitter == QMul(MathRandom(r), Q(cfg.jitterRange, 1))
  IN QAdd(delay, jitter)

\* The selectors of a candidate list and of a document.
SelectorNames == {"a.missing", "b.missing", "c.present"}
\* Longest candidate list.
MaxSelectors == 3

\* page.waitForSelector: the element when the document has one for the
\* selector, a TimeoutError otherwise.
waitForSelector(selector, document) ==
  IF selector \in document THEN "element" ELSE "TimeoutError"

\* Variant: a queryWithFallback without the try / catch around the wait.
queryWithFallbackNoCatch(selectors, document) ==
  IF selectors = <<>>
    THEN [outcome |-> "returns", value |-> NULL, tried |-> <<>>]
    ELSE IF waitForSelector(Head(selectors), document) = "element"
      THEN [outcome |-> "returns", value |-> Head(selectors),
            tried |-> <<Head(selectors)>>]
      ELSE [outcome |-> "throws", value |-> NULL,
            tried |-> <<Head(selectors)>>]

RECURSIVE queryWithFallback(_, _)
\* queryWithFallback, lines 154-174: how the call ends, the selector or null
\* it returns, and the selectors it waited for, in order.
queryWithFallback(selectors, document) ==
  IF selectors = <<>>
    THEN [outcome |-> "returns", value |-> NULL, tried |-> <<>>]
    ELSE IF waitForSelector(Head(selectors), document) = "element"
      THEN [outcome |-> "returns", value |-> Head(selectors),
            tried |-> <<Head(selectors)>>]
      ELSE LET rest == queryWithFallback(Tail(selectors), document)
           IN [rest EXCEPT !.tried = <<Head(selectors)>> \o @]

\* One call of a helper with arguments from the sets above. calculateDelay is
\* called by retryOperation after the failed attempt k < maxRetries - 1.
(***************************************************************************)
(* Path A: the export document, its validation and the batch               *)
(***************************************************************************)

\* The longest list of conversations of an export.
MaxBatch == 3

ConversationIds == {"c1", "c2"}

\* What the mapping field of a raw conversation holds: nothing (the field is
\* missing), a string, the empty object, a root with one child carrying the
\* user message "Hello", and that thread with a message that has no metadata.
MappingForms == {"missing", "text", "empty", "thread", "bare"}

\* A null element of the conversations array.
NullConversation == [null |-> TRUE]

\* The elements of a conversations array; the id may be the empty string.
RawConversations ==
  [id : ConversationIds \cup {""}, mapping : MappingForms]
    \cup {NullConversation}

\* The documents a file may hold: text that is not JSON, a JSON scalar or
\* null, a bare list, an object with a conversations array, another object.
Documents ==
  {[shape |-> "malformed"], [shape |-> "scalar"], [shape |-> "other"]}
    \cup [shape : {"list", "object"},
          conversations : SeqsUpTo(RawConversations, MaxBatch)]

\* processConversation(conversation), lines 69-93: it throws on a null
\* conversation (line 72), on a missing mapping (Object.values, line 104) and
\* on a message without metadata (line 243); the values of a string and the
\* empty object hold no message.
processConversationOutcome(conversation) ==
  IF conversation = NullConversation
       \/ conversation.mapping \in {"missing", "bare"}
    THEN [outcome |-> "throws"]
    ELSE [outcome |-> "returns",
          value |-> [id |-> conversation.id,
                     messageCount |-> IF conversation.mapping = "thread"
                                        THEN 1 ELSE 0]]

\* processConversations, lines 51-64: map each conversation to its processed
\* form, or to null when processing throws, and filter the nulls out. The
\* catch handler reads conversation.id (line 59), which throws out of the
\* map when the conversation is null.
processConversations(conversations) ==
  LET mapped == [k \in 1..Len(conversations) |->
                   IF processConversationOutcome(conversations[k]).outcome
                        = "returns"
                     THEN processConversationOutcome(conversations[k]).value
                     ELSE None]
  IN IF \E k \in 1..Len(conversations) : conversations[k] = NullConversation
       THEN [outcome |-> "throws"]
       ELSE [outcome |-> "returns",
             value |-> SelectSeq(mapped, LAMBDA v : v # None)]

\* Variant: a validation that looks at the array only.
validateChatGPTExportArrayOnly(data) ==
  CASE data.shape = "scalar" ->
         [outcome |-> "returns", valid |-> FALSE,
          error |-> "Invalid JSON structure"]
    [] data.shape = "other" ->
         [outcome |-> "returns", valid |-> FALSE,
          error |-> "No conversations array found in export"]
    [] OTHER ->
         IF Len(data.conversations) = 0
           THEN [outcome |-> "returns", valid |-> FALSE,
                 error |-> "Export contains no conversations"]
           ELSE [outcome |-> "returns", valid |-> TRUE]

\* validateChatGPTExport(data), file-helpers.ts lines 54-94, of a parsed
\* document; reading firstConv.id of a null first element throws.
validateChatGPTExport(data) ==
  CASE data.shape = "scalar" ->
         [outcome |-> "returns", valid |-> FALSE,
          error |-> "Invalid JSON structure"]
    [] data.shape = "other" ->
         [outcome |-> "returns", valid |-> FALSE,
          error |-> "No conversations array found in export"]
    [] OTHER ->
         IF Len(data.conversations) = 0
           THEN [outcome |-> "returns", valid |-> FALSE,
                 error |-> "Export contains no conversations"]
           ELSE LET firstConv == data.conversations[1] IN
                IF firstConv = NullConversation
                  THEN [outcome |-> "throws"]
                  ELSE IF firstConv.id = ""
                            \/ firstConv.mapping \in {"missing", "text"}
                         THEN [outcome |-> "returns", valid |-> FALSE,
                               error |-> "Invalid conversation structure"]
                         ELSE [outcome |-> "returns", valid |-> TRUE]

\* parseExport(jsonContent), lines 21-46.
parseExport(document) ==
  CASE document.shape = "malformed" ->
         [outcome |-> "throws", error |-> "Invalid JSON file"]
    [] document.shape = "scalar" ->
         [outcome |-> "throws", error |-> "Invalid JSON structure"]
    [] document.shape = "other" ->
         [outcome |-> "throws",
          error |-> "No conversations array found in export"]
    [] OTHER ->
         [outcome |-> "returns",
          value |-> [conversations |-> document.conversations]]

\* handleFileLoaded(content), page.tsx lines 19-50: what the page ends with,
\* an error or the conversations, and whether processConversations was
\* called on the way.
handleFileLoaded(content) ==
  IF content.shape = "malformed"
    THEN [error |-> "Failed to parse file", processing |-> FALSE]
    ELSE
      IF validateChatGPTExport(content).outcome = "throws"
        THEN [error |-> "Failed to parse file", processing |-> FALSE]
        ELSE
          IF ~validateChatGPTExport(content).valid
            THEN [error |-> validateChatGPTExport(content).error,
                  processing |-> FALSE]
            ELSE
              IF parseExport(content).outcome = "throws"
                THEN [error |-> "Failed to parse file", processing |-> FALSE]
                ELSE
                  LET processed ==
                        processConversations(
                          parseExport(content).value.conversations)
                  IN IF processed.outcome = "throws"
                       THEN [error |-> "Failed to parse file",
                             processing |-> TRUE]
                       ELSE IF Len(processed.value) = 0
                              THEN [error |->
                                      "No valid conversations found in export",
                                    processing |-> TRUE]
                              ELSE [conversations |-> processed.value,
                                    processing |-> TRUE]

(***************************************************************************)
(* The scroll loop of scrollSidebarToLoadAll                               *)
(***************************************************************************)

\* `const maxAttempts = 50`
maxAttempts == 50

\* The largest scrollHeight the sidebar starts with.
MaxHeight == 2

\* By how much one scroll-to-end and its 500 ms wait change the sidebar's
\* scrollHeight: it shrinks, stays, grows.
HeightChanges == {-1, 0, 1}

\* Lines 453-455: the locals before the loop, for a sidebar of height h.
ScrollLocals(h) == [previousHeight |-> 0, currentHeight |-> h, attempts |-> 0]

\* Variant: a loop without the attempt ceiling.
ScrollContinuesWhileGrowing(l) == l.currentHeight > l.previousHeight

\* The loop condition of line 457.
ScrollContinues(l) ==
  l.currentHeight > l.previousHeight /\ l.attempts < maxAttempts

\* One pass of the loop body, lines 458-461.
ScrollOnce ==
  /\ call.fn = "scrollSidebarToLoadAll"
  /\ ret = None
  /\ ScrollContinues(scrollLoop)
  /\ \E d \in HeightChanges :
       /\ scrollLoop.currentHeight + d >= 0
       /\ scrollLoop' = [previousHeight |-> scrollLoop.currentHeight,
                         currentHeight |-> scrollLoop.currentHeight + d,
                         attempts |-> scrollLoop.attempts + 1]
  /\ UNCHANGED <<gvars, svars, call, ret>>

\* The loop is left and the evaluated function returns, line 464.
ScrollReturn ==
  /\ call.fn = "scrollSidebarToLoadAll"
  /\ ret = None
  /\ ~ScrollContinues(scrollLoop)
  /\ ret' = [value |-> "void"]
  /\ UNCHANGED <<gvars, svars, call, scrollLoop>>

HelperInit ==
  /\ NoSession
  /\ NoParse
  /\ ret = None
  /\ \/ \E i \in ConversationIndexes, r \in Randoms, cfg \in DelayConfigs :
          call = [fn |-> "smartDelay", conversationIndex |-> i,
                  random |-> r, config |-> cfg]
     \/ \E k \in 0..(MaxRetries - 2), r \in Randoms, cfg \in DelayConfigs :
          call = [fn |-> "calculateDelay", attempt |-> k,
                  random |-> r, config |-> cfg]
     \/ \E q \in SeqsUpTo(SelectorNames, MaxSelectors),
           doc \in SUBSET SelectorNames :
          call = [fn |-> "queryWithFallback", selectors |-> q,
                  document |-> doc]
     \/ \E cs \in SeqsUpTo(RawConversations, MaxBatch) :
          call = [fn |-> "processConversations", conversations |-> cs]
     \/ \E d \in Documents :
          call = [fn |-> "handleFileLoaded", content |-> d]
     \/ \E h \in 0..MaxHeight :
          call = [fn |-> "scrollSidebarToLoadAll", scrollHeight |-> h]
  /\ scrollLoop = IF call.fn = "scrollSidebarToLoadAll"
                    THEN ScrollLocals(call.scrollHeight)
                    ELSE None

ApplySmartDelay ==
  /\ call.fn = "smartDelay"
  /\ ret = None
  /\ ret' = [value |-> smartDelay(call.conversationIndex, call.random,
                                  call.config)]
  /\ UNCHANGED <<gvars, svars, call, scrollLoop>>

ApplyCalculateDelay ==
  /\ call.fn = "calculateDelay"
  /\ ret = None
  /\ ret' = [value |-> calculateDelay(call.attempt, call.random, call.config)]
  /\ UNCHANGED <<gvars, svars, call, scrollLoop>>

ApplyQueryWithFallback ==
  /\ call.fn = "queryWithFallback"
  /\ ret = None
  /\ ret' = [value |-> queryWithFallback(call.selectors, call.document)]
  /\ UNCHANGED <<gvars, svars, call, scrollLoop>>

ApplyProcessConversations ==
  /\ call.fn = "processConversations"
  /\ ret = None
  /\ ret' = [value |-> processConversations(call.conversations)]
  /\ UNCHANGED <<gvars, svars, call, scrollLoop>>

ApplyHandleFileLoaded ==
  /\ call.fn = "handleFileLoaded"
  /\ ret = None
  /\ ret' = [value |-> handleFileLoaded(call.content)]
  /\ UNCHANGED <<gvars, svars, call, scrollLoop>>

HelperNext ==
  \/ ApplySmartDelay
  \/ ApplyCalculateDelay
  \/ ApplyQueryWithFallback
  \/ ApplyProcessConversations
  \/ ApplyHandleFileLoaded
  \/ ScrollOnce
  \/ ScrollReturn

HelperSpec == HelperInit /\ [][HelperNext]_vars

(***************************************************************************)
(* Path A: claims                                                          *)
(***************************************************************************)

\* No node occurs twice among the nodes the running descent has processed.
NoDuplicateVisits ==
  \A i, j \in 1..Len(visits) : i # j => visits[i] # visits[j]

\* C1: for every finite node mapping, extractMainThread and extractBranches
\* both terminate (processConversation reaches the end of extractBranches),
\* and no descent, the main-thread one or a branch one, processes a node twice.
C1_TerminatesWithoutRevisit ==
  <>(gpc = "done") /\ []NoDuplicateVisits

\* C2: when no node has a null parent and currentNode names a node of the
\* mapping, the upward walk along parent links stops, so root selection ends
\* and the descent starts, for every mapping, also when the parent links
\* reachable from currentNode form a cycle.
C2_RootSelectionTerminates ==
  (FindRootIdx = 0 /\ currentNode # NULL /\ Resolves(currentNode))
    => <>(gpc \notin {"find_root", "walk_up"})

(***************************************************************************)
(* Path B: claims                                                          *)
(***************************************************************************)

\* q is an initial part of r.
IsPrefix(q, r) == Len(q) <= Len(r) /\ SubSeq(r, 1, Len(q)) = q

\* C3: retryOperation with maxRetries = n >= 1 on an operation that fails its
\* first f invocations: if f < n it returns after exactly f + 1 invocations and
\* f backoff sleeps; if f >= n it throws after exactly n invocations and n - 1
\* sleeps, and no sleep is pending after the final failing attempt.
C3_RetryCounts ==
  LET n == config.maxRetries IN
  /\ rpc = "returned" =>
       failures < n /\ invocations = failures + 1 /\ sleeps = failures
  /\ rpc = "thrown" =>
       failures = n /\ invocations = n /\ sleeps = n - 1
  /\ rpc = "backoff" => failures < n /\ sleeps = failures - 1

\* C3 witness: maxRetries = 3, the operation failed twice and then succeeded.
C3_Witness ==
  /\ config.maxRetries = 3
  /\ rpc = "returned"
  /\ failures = 2
  /\ invocations = 3
  /\ sleeps = 2

\* C4: a session that starts with scrapedIds = S (the persisted, not complete
\* record; empty for a new session) and enumerates the links L never attempts
\* a link whose id is in S, attempts only links of L, and has attempted
\* exactly the links of L not in S, each once, when its loop is over.
C4_ResumeAttemptsOnlyUnscraped ==
  /\ \A k \in 1..Len(attempted) :
       /\ attempted[k] \notin Ids(startIds)
       /\ attempted[k] \in Ids(allLinks)
       /\ \A h \in 1..Len(attempted) : h # k => attempted[h] # attempted[k]
  /\ spc = "es_returned" => Ids(attempted) = Ids(allLinks) \ Ids(startIds)

\* C4 witness: resumed with S = {1, 2}, enumeration returned <<1, 2, 3>>, and
\* the finished loop attempted link 3 alone.
C4_Witness ==
  /\ spc = "es_returned"
  /\ requestNo = 2
  /\ startIds = <<1, 2>>
  /\ allLinks = <<1, 2, 3>>
  /\ attempted = <<3>>

\* scrapeConversation has thrown after its last attempt and the loop's catch
\* block runs (the request is not ended from outside).
ItemFailureStep ==
  /\ spc = "item"
  /\ rpc = "thrown"
  /\ spc' # "idle"

\* C5: when an item's scrape has failed on every one of its maxRetries
\* attempts, exactly one FailedConversation for that item is appended, the
\* session goes on with the next loop iteration instead of to its error exit,
\* and a loop that was entered ends only after every item of the work list
\* was attempted.
C5_ItemFailureIsRecordedAndSkipped ==
  /\ [][ItemFailureStep =>
          /\ invocations = config.maxRetries
          /\ failures = config.maxRetries
          /\ progress'.failedConversations =
               Append(progress.failedConversations,
                      [id |-> linksToScrape[loopIdx + 1], retryCount |-> 0])
          /\ progress'.scrapedIds = progress.scrapedIds
          /\ spc' = "loop"
          /\ loopIdx' = loopIdx + 1
          /\ err' = ""]_vars
  /\ [](spc = "es_returned" => attempted = linksToScrape)
  /\ [](spc = "post_catch" => attempted = <<>>)

\* C5 witness: the first item of a new session failed, the two items after it
\* were attempted and the session completed.
C5_Witness ==
  /\ spc = "es_returned"
  /\ requestNo = 1
  /\ attempted = <<1, 2, 3>>
  /\ Len(progress.failedConversations) = 1
  /\ progress.failedConversations[1].id = 1
  /\ progress.scrapedIds = <<2, 3>>

\* C6: every response carries the conversations acquired so far (all of
\* them, or the first ones under an item cap, never none while some exist) and
\* the list of failed items.
C6_ResponseCarriesAcquired ==
  (resp # None /\ progress # None) =>
    /\ IsPrefix(resp.conversations, progress.scrapedConversations)
    /\ progress.scrapedConversations # <<>> => resp.conversations # <<>>
    /\ progress.failedConversations # <<>> =>
         ("failed" \in DOMAIN resp /\ resp.failed = progress.failedConversations)

\* C7: when scroll or enumeration has thrown out of enhancedScrape, the
\* progress accumulated so far, isComplete still false, was handed to
\* saveProgress (and is what a working store holds) before the caller's catch
\* runs.
C7_ProgressSavedBeforeErrorPropagates ==
  (spc = "post_catch" /\ err = "enumeration") =>
    /\ progress # None
    /\ ~progress.isComplete
    /\ lastSaved = progress
    /\ storeWorks => store = JsonRoundTrip(progress)

\* C7 witness: a resumed session with scraped conversations fails at
\* enumeration with a working store.
C7_Witness ==
  /\ spc = "post_catch"
  /\ err = "enumeration"
  /\ storeWorks
  /\ Len(progress.scrapedIds) > 0

\* C8: after a request ended by a login timeout or by an enumeration failure,
\* a working ProgressStore holds a record with isComplete = false.
C8_AbortLeavesResumableRecord ==
  (resp # None /\ ~resp.success /\ storeWorks
     /\ resp.error \in {"login timeout", "enumeration"}) =>
    (store # None /\ ~store.isComplete)

\* C9: when no login selector resolves, the request ends with the login
\* timeout error: no selector is waited for twice, enhancedScrape is never
\* started (no progress, no retryOperation, no enumeration, no item attempt),
\* and the response has success = false.
C9_LoginTimeoutIsFatal ==
  /\ loginWaits <= Len(loginSelectors)
  /\ err = "login timeout" =>
       /\ loginWaits = Len(loginSelectors)
       /\ spc \in {"post_catch", "idle"}
       /\ progress = None
       /\ rpc = "off"
       /\ allLinks = <<>>
       /\ attempted = <<>>
       /\ resp # None => (~resp.success /\ resp.error = "login timeout")

\* C9 witness: the response to a request whose login wait timed out.
C9_Witness ==
  /\ err = "login timeout"
  /\ resp # None
  /\ ~resp.success

\* C10: isComplete is true only once every enumerated item that was not
\* already scraped has been attempted and has ended in scrapedIds or in
\* failedConversations; the completed record is the last one handed to
\* saveProgress, and what a working store holds when enhancedScrape returns.
C10_CompleteOnlyAfterAllAttempted ==
  (progress # None /\ progress.isComplete) =>
    /\ Ids(attempted) = Ids(allLinks) \ Ids(startIds)
    /\ \A k \in 1..Len(attempted) :
         \/ attempted[k] \in Ids(progress.scrapedIds)
         \/ \E f \in 1..Len(progress.failedConversations) :
              progress.failedConversations[f].id = attempted[k]
    /\ lastSaved = progress
    /\ (storeWorks /\ spc = "es_returned") =>
         (store = JsonRoundTrip(progress) /\ store.isComplete)

\* C10 witness: a completed session over three items, one of them failed,
\* persisted in a working store.
C10_Witness ==
  /\ spc = "es_returned"
  /\ storeWorks
  /\ store.isComplete
  /\ Len(attempted) = 3
  /\ Len(progress.failedConversations) = 1

\* The three lists of p are initial parts of those of q.
ListsExtend(p, q) ==
  /\ IsPrefix(p.scrapedConversations, q.scrapedConversations)
  /\ IsPrefix(p.scrapedIds, q.scrapedIds)
  /\ IsPrefix(p.failedConversations, q.failedConversations)

\* C11: in every step of a session the lists scrapedConversations,
\* scrapedIds and failedConversations of the progress only grow at the end
\* and isComplete never returns from true to false; a session starts from a
\* new record or, resumed, from the persisted lists of a record that is not
\* complete, so that isComplete is set once; the records one session persists
\* extend one another in the same way.
C11_ListsAppendOnlyCompleteOnce ==
  /\ [][(progress # None /\ progress' # None) =>
          /\ ListsExtend(progress, progress')
          /\ progress.isComplete => progress'.isComplete]_vars
  /\ [][(progress = None /\ progress' # None) =>
          /\ ~progress'.isComplete
          /\ \/ progress' = NewProgress(requestNo)
             \/ storeWorks /\ store # None /\ progress' = store]_vars
  /\ [][(store # None /\ store' # None /\ store'.sessionId = store.sessionId) =>
          /\ ListsExtend(store, store')
          /\ store.isComplete => store'.isComplete]_vars

\* C11 witness: a session resumed with one scraped conversation has recorded
\* two failures after it and is complete.
C11_Witness ==
  /\ requestNo = 2
  /\ startIds = <<1>>
  /\ progress # None
  /\ progress.isComplete
  /\ progress.sessionId = 1
  /\ Len(progress.failedConversations) = 2

\* The item ended in success or in a recorded failure.
Settled(id) ==
  \/ id \in Ids(progress.scrapedIds)
  \/ \E f \in 1..Len(progress.failedConversations) :
       progress.failedConversations[f].id = id

\* C12: the work list holds the enumerated links left after resume filtering
\* in enumeration order; the items attempted so far are its first items in
\* its order, one per loop iteration, none twice; and when an item is taken
\* up every item before it has ended in success or in a recorded failure.
C12_AttemptsInEnumerationOrder ==
  spc \in {"loop", "item", "delay", "es_returned"} =>
    /\ \A x, y \in 1..Len(linksToScrape) :
         x < y => \E a, b \in 1..Len(allLinks) :
                    a < b /\ allLinks[a] = linksToScrape[x]
                          /\ allLinks[b] = linksToScrape[y]
    /\ Ids(linksToScrape) = Ids(allLinks) \ Ids(startIds)
    /\ Len(attempted) = (IF spc \in {"item", "delay"} THEN loopIdx + 1 ELSE loopIdx)
    /\ IsPrefix(attempted, linksToScrape)
    /\ \A k \in 1..Len(attempted) :
         (k < Len(attempted) \/ spc # "item") => Settled(attempted[k])

\* C12 witness: resumed with link 2 scraped, the session attempted link 1 and
\* then link 3.
C12_Witness ==
  /\ spc = "es_returned"
  /\ requestNo = 2
  /\ startIds = <<2>>
  /\ allLinks = <<1, 2, 3>>
  /\ attempted = <<1, 3>>

\* C13: on a working store, what loadProgress returns after saveProgress(p)
\* is equal to p in every field.
C13_SaveLoadRoundTrip ==
  (storeWorks /\ lastSaved # None /\ store # None) => loadProgress = lastSaved

\* A step in which saveProgress was called.
SaveStep == lastSaved' # lastSaved /\ lastSaved' # None

\* C14: a saveProgress call on a store that is unavailable or throws returns
\* normally: no storage error ever reaches a caller, the store and the
\* in-memory progress are left as they were, the item just scraped is not
\* turned into a failure, the session goes on at the statement after the
\* call, and a session that ends has each attempted item in exactly one of
\* the scraped and the failed list.
C14_SaveFailureIsSwallowed ==
  /\ [](err # "storage")
  /\ [][(SaveStep /\ ~storeWorks) =>
          /\ saveProgressEnds # "thrown"
          /\ store' = store
          /\ progress' = lastSaved'
          /\ spc = "item" =>
               /\ spc' \in {"loop", "delay"}
               /\ progress'.scrapedIds = Append(progress.scrapedIds, link)
               /\ progress'.failedConversations = progress.failedConversations
          /\ spc = "loop" => spc' = "es_returned"
          /\ spc \in {"scroll", "find"} => err' = "enumeration"]_vars
  /\ []((~storeWorks /\ spc = "es_returned") =>
          /\ Len(progress.scrapedIds) + Len(progress.failedConversations)
               = Len(attempted)
          /\ \A k \in 1..Len(attempted) : Settled(attempted[k]))

\* C14 witness: without a working store a session that saves after every
\* item has scraped two items and returned, the store still empty.
C14_Witness ==
  /\ ~storeWorks
  /\ config.saveProgressInterval = 1
  /\ spc = "es_returned"
  /\ store = None
  /\ lastSaved = progress
  /\ Len(progress.scrapedIds) = 2

\* C15: the loop goes from an item to the next one only through smartDelay,
\* whether the item was scraped or failed, and smartDelay is never applied
\* after the last item.
C15_DelayBetweenConsecutiveItems ==
  /\ [][(spc = "item" /\ spc' = "loop") =>
          loopIdx' >= Len(linksToScrape)]_vars
  /\ [](spc = "delay" => loopIdx < Len(linksToScrape) - 1)

(***************************************************************************)
(* The helpers: claims                                                     *)
(***************************************************************************)

QEq(a, b) == a.n * b.d = b.n * a.d

\* The jitter of the call: a draw j in [0, jitterRange).
JitterDrawn == QMul(MathRandom(call.random), Q(call.config.jitterRange, 1))

\* 1 + 0.5 * i / 100 for the index i of the call.
GrowthFactor == QAdd(Q(1, 1), Q(call.conversationIndex, 200))

\* C16: for every index i and jitter draw j the time smartDelay waits equals
\* min(minDelay * (1 + 0.5 * i / 100) + j, maxDelay), and so never exceeds
\* maxDelay.
C16_SmartDelayAddsJitterAfterGrowth ==
  (call # None /\ call.fn = "smartDelay" /\ ret # None) =>
    /\ QEq(ret.value,
           QMin(QAdd(QMul(Q(call.config.minDelay, 1), GrowthFactor),
                     JitterDrawn),
                Q(call.config.maxDelay, 1)))
    /\ QLe(ret.value, Q(call.config.maxDelay, 1))

\* C16 as amended: the time smartDelay waits equals
\* min((minDelay + j) * (1 + 0.5 * i / 100), maxDelay): the jitter grows with
\* the index like the base delay; the wait never exceeds maxDelay and, when
\* minDelay <= maxDelay, is never below minDelay.
C16_SmartDelayGrowsJitterToo ==
  (call # None /\ call.fn = "smartDelay" /\ ret # None) =>
    /\ QEq(ret.value,
           QMin(QMul(QAdd(Q(call.config.minDelay, 1), JitterDrawn),
                     GrowthFactor),
                Q(call.config.maxDelay, 1)))
    /\ QLe(ret.value, Q(call.config.maxDelay, 1))
    /\ QLe(Q(call.config.minDelay, 1), ret.value)

\* C16 witness: index 100 with the default delays and half the jitter range:
\* (1500 + 250) * 1.5 = 2625 ms, below the cap of 4000 ms.
C16_Witness ==
  /\ call # None
  /\ call.fn = "smartDelay"
  /\ call.conversationIndex = 100
  /\ call.random = 2
  /\ call.config = [minDelay |-> 1500, maxDelay |-> 4000, jitterRange |-> 500,
                    backoffMultiplier |-> Q(3, 2)]
  /\ ret # None
  /\ ret.value = Q(2625, 1)

\* min(minDelay * backoffMultiplier^k, maxDelay) for the call's attempt k.
CappedBackoff ==
  QMin(QMul(Q(call.config.minDelay, 1),
            QPow(call.config.backoffMultiplier, call.attempt)),
       Q(call.config.maxDelay, 1))

\* C17: the backoff sleep after the failed attempt k < maxRetries - 1 equals
\* min(minDelay * backoffMultiplier^k, maxDelay) + j for the jitter draw j; it
\* is at least min(minDelay * backoffMultiplier^k, maxDelay) and at most
\* maxDelay + jitterRange.
C17_BackoffDelay ==
  (call # None /\ call.fn = "calculateDelay" /\ ret # None) =>
    /\ QEq(ret.value, QAdd(CappedBackoff, JitterDrawn))
    /\ QLe(CappedBackoff, ret.value)
    /\ QLe(ret.value,
           Q(call.config.maxDelay + call.config.jitterRange, 1))

\* C17 witness: attempt 1 with a multiplier of 1.5 and a cap of 2000 ms:
\* 1500 * 1.5 = 2250 is capped to 2000, and 375 ms of jitter are added.
C17_Witness ==
  /\ call # None
  /\ call.fn = "calculateDelay"
  /\ call.attempt = 1
  /\ call.random = 3
  /\ call.config = [minDelay |-> 1500, maxDelay |-> 2000, jitterRange |-> 500,
                    backoffMultiplier |-> Q(3, 2)]
  /\ ret # None
  /\ ret.value = Q(2375, 1)

\* C18: queryWithFallback returns the first candidate, in list order, that
\* resolves, having waited for every earlier candidate and for no later one;
\* it returns null when no candidate resolves, having waited for each; a
\* candidate that does not resolve never makes it throw.
C18_FirstResolvingCandidate ==
  (call # None /\ call.fn = "queryWithFallback" /\ ret # None) =>
    LET candidates == call.selectors
        hits == {k \in 1..Len(candidates) : candidates[k] \in call.document}
    IN /\ ret.value.outcome = "returns"
       /\ IF hits = {}
            THEN /\ ret.value.value = NULL
                 /\ ret.value.tried = candidates
            ELSE LET first == CHOOSE k \in hits : \A h \in hits : k <= h
                 IN /\ ret.value.value = candidates[first]
                    /\ ret.value.tried = SubSeq(candidates, 1, first)

\* C18 witness: the candidates a.missing, b.missing, c.present on a document
\* with only c.present resolve to c.present.
C18_Witness ==
  /\ call # None
  /\ call.fn = "queryWithFallback"
  /\ call.selectors = <<"a.missing", "b.missing", "c.present">>
  /\ call.document = {"c.present"}
  /\ ret # None
  /\ ret.value.outcome = "returns"
  /\ ret.value.value = "c.present"

(***************************************************************************)
(* Path A: claims about trees                                              *)
(***************************************************************************)

\* The mapping is a tree: exactly one node has a null parent, and every other
\* node is listed as a child once, by its parent and by no other node.
IsTree ==
  /\ Cardinality({k \in NodeIds : mapping[k].parent = NULL}) = 1
  /\ \A k \in NodeIds : mapping[k].parent # NULL => mapping[k].parent \in NodeIds
  /\ \A k, n \in NodeIds :
       Cardinality({x \in DOMAIN mapping[n].children :
                      mapping[n].children[x] = k})
         = IF mapping[k].parent = n THEN 1 ELSE 0

Root == CHOOSE k \in NodeIds : mapping[k].parent = NULL

RECURSIVE FirstChildPath(_)
\* In a tree: k, its first child, that node's first child, ... down to a leaf.
FirstChildPath(k) ==
  IF mapping[k].children = <<>>
    THEN <<k>>
    ELSE <<k>> \o FirstChildPath(mapping[k].children[1])

\* The node carries a message that is kept: not absent, not a system message,
\* not one with empty text.
Kept(k) == mapping[k].message \in {"user", "tool"}

\* The ids of a sequence of processed messages.
MessageIds(msgs) == [x \in 1..Len(msgs) |-> msgs[x].id]

\* The kept messages along the first-child path from k.
PathMessages(k) == SelectSeq(FirstChildPath(k), Kept)

OnPath(k, path) == \E x \in 1..Len(path) : path[x] = k

\* C19: for every mapping that is a tree, extractMainThread returns exactly
\* the messages of the nodes on the first-child path from the root to a leaf,
\* in path order, without the nodes that have no message, the system messages
\* and the messages with empty text, and with no message of a node off the
\* path.
C19_MainThreadIsFirstChildPath ==
  (gpc \in {"main_done", "branch_scan", "branch_descend", "done"} /\ IsTree) =>
    /\ MessageIds(messages) = PathMessages(Root)
    /\ \A x \in 1..Len(messages) :
         OnPath(messages[x].id, FirstChildPath(Root))

\* C19 witness: a four-node tree whose path from the root has three nodes, a
\* system message and an empty one among them, and whose fourth node, off the
\* path, carries a user message that is not in the result.
C19_Witness ==
  /\ gpc = "done"
  /\ IsTree
  /\ NodeIds = TreeIds
  /\ Len(FirstChildPath(Root)) = 3
  /\ Len(messages) = 1
  /\ \E k \in NodeIds : OnPath(k, FirstChildPath(Root)) /\ mapping[k].message = "system"
  /\ \E k \in NodeIds : OnPath(k, FirstChildPath(Root)) /\ mapping[k].message = "empty"
  /\ \E k \in NodeIds : ~OnPath(k, FirstChildPath(Root)) /\ mapping[k].message = "user"

\* The branches extractBranches returned for the node n.
BranchesOf(n) == SelectSeq(branches, LAMBDA b : b.parentMessageId = n)

\* C20: a node with k > 1 children yields exactly k - 1 branches, one for each
\* child at index 1 .. k-1 in that order, each with the child's id and with
\* the node's id as parentMessageId (two branches for a node with three
\* children); the child at index 0 yields none.
C20_OneBranchPerLaterChild ==
  gpc = "done" =>
    \A n \in NodeIds :
      LET kids == mapping[n].children IN
      Len(kids) > 1 =>
        /\ Len(BranchesOf(n)) = Len(kids) - 1
        /\ \A j \in 1..(Len(kids) - 1) :
             /\ BranchesOf(n)[j].id = kids[j + 1]
             /\ BranchesOf(n)[j].parentMessageId = n

\* In a tree: the branches the node n is to yield, one for each child after
\* the first whose descent holds a kept message.
ExpectedBranches(n) ==
  LET kids == mapping[n].children
      later == SelectSeq([j \in 1..(Len(kids) - 1) |-> j + 1],
                         LAMBDA j : PathMessages(kids[j]) # <<>>)
  IN [x \in 1..Len(later) |->
        [id |-> kids[later[x]], parentMessageId |-> n,
         messages |-> PathMessages(kids[later[x]])]]

\* C20 as amended: a node with k children yields at most k - 1 branches (none
\* when k <= 1), each for a child at an index 1 .. k-1, with a non-empty
\* message list, the child's id and the node's id as parentMessageId; in a
\* tree it yields exactly one branch for each child at index 1 .. k-1 whose
\* first-child descent holds at least one kept message, in child order.
C20_OneBranchPerLaterChildWithMessages ==
  gpc = "done" =>
    \A n \in NodeIds :
      LET kids == mapping[n].children
          got == BranchesOf(n)
      IN /\ Len(got) <= (IF Len(kids) > 1 THEN Len(kids) - 1 ELSE 0)
         /\ \A x \in 1..Len(got) :
              /\ got[x].messages # <<>>
              /\ \E j \in 2..Len(kids) : kids[j] = got[x].id
         /\ IsTree =>
              [x \in 1..Len(got) |-> [got[x] EXCEPT !.messages = MessageIds(@)]]
                = ExpectedBranches(n)

\* C20 witness: a tree whose root has three children; the child at index 1
\* carries no kept message and the child at index 2 carries one, so the root
\* yields one branch, for the child at index 2.
C20_Witness ==
  /\ gpc = "done"
  /\ IsTree
  /\ Len(mapping[Root].children) = 3
  /\ ~Kept(mapping[Root].children[2])
  /\ Kept(mapping[Root].children[3])
  /\ Len(BranchesOf(Root)) = 1
  /\ BranchesOf(Root)[1].id = mapping[Root].children[3]

(***************************************************************************)
(* C23, C24: the concrete export and the roles of processed messages       *)
(***************************************************************************)

\* The export of the scenario: a message-less root A whose single child B
\* carries a user text message "Hello" and has no children; B is current.
ConcreteExport ==
  /\ DOMAIN mapping = {"A", "B"}
  /\ mapping["A"] = [parent |-> NULL, children |-> <<"B">>, message |-> "none"]
  /\ mapping["B"] = [parent |-> "A", children |-> <<>>, message |-> "user"]
  /\ currentNode = "B"

\* C23: the concrete export parses to a conversation whose main thread has
\* length 1 with role user and text Hello, and whose branches are a sequence
\* of length 0.
C23_ConcreteExportHasEmptyBranches ==
  (ConcreteExport /\ gpc = "done") =>
    /\ processConversation.messageCount = 1
    /\ Len(processConversation.messages) = 1
    /\ processConversation.messages[1].role = "user"
    /\ processConversation.messages[1].content = "Hello"
    /\ "branches" \in DOMAIN processConversation
    /\ Len(processConversation.branches) = 0

\* Every message collected so far, in the main thread, in the branch being
\* descended and in the branches kept.
CollectedMessages ==
  {messages[x] : x \in 1..Len(messages)}
    \cup {branchMsgs[x] : x \in 1..Len(branchMsgs)}
    \cup UNION {{branches[b].messages[x] : x \in 1..Len(branches[b].messages)} :
                b \in 1..Len(branches)}

\* The node a descent is about to process carries a message that is skipped.
AtSkippedMessage ==
  /\ node # NULL
  /\ Resolves(node)
  /\ mapping[node].message \in {"system", "empty"}
  /\ \/ gpc = "descend" /\ ~VisitedGuard(node, visited)
     \/ gpc = "branch_descend" /\ BranchContinues

\* A descent passes a skipped message: nothing is collected and the descent
\* moves to the node's first child when it has one.
PassesSkippedMessage ==
  AtSkippedMessage =>
    /\ messages' = messages
    /\ branchMsgs' = branchMsgs
    /\ FirstChild(node) # NULL => node' = FirstChild(node) /\ gpc' = gpc

\* C24: every processed message has role user or assistant; a tool message
\* appears as assistant; a system message or one with empty text appears in
\* no thread, and the traversal goes on past its node to the first child.
C24_RolesAndSkippedMessages ==
  /\ [](\A m \in CollectedMessages :
          /\ m.role \in {"user", "assistant"}
          /\ mapping[m.id].message \notin {"system", "empty", "none"}
          /\ mapping[m.id].message = "tool" => m.role = "assistant"
          /\ m.content # "")
  /\ [][PassesSkippedMessage]_vars

\* The main descent has passed a system message and then collected a tool
\* message as an assistant message.
C24_Witness ==
  /\ gpc = "descend"
  /\ \E i \in 1..Len(visits) : \E j \in 1..Len(visits) :
       /\ i < j
       /\ mapping[visits[i]].message = "system"
       /\ mapping[visits[j]].message = "tool"
       /\ \E x \in 1..Len(messages) :
            messages[x].id = visits[j] /\ messages[x].role = "assistant"

(***************************************************************************)
(* C21: a branch is a first-child descent up to the main thread            *)
(***************************************************************************)

\* extractBranchThread returns and its thread is kept as a branch.
BranchReturned ==
  /\ gpc = "branch_descend"
  /\ gpc' = "branch_scan"
  /\ Len(branches') = Len(branches) + 1

\* seq starts at the node start and each next node is the first child of the
\* one before.
IsFirstChildChain(seq, start) ==
  /\ seq # <<>>
  /\ seq[1] = start
  /\ \A x \in 1..(Len(seq) - 1) : FirstChild(seq[x]) = seq[x + 1]

\* The branch just returned is the first-child descent from its branch root:
\* its messages are the kept messages of the nodes descended, in order, and
\* no node descended belongs to the main thread.
ReturnedBranchIsDescent ==
  LET b == branches'[Len(branches')] IN
  /\ b.id = mapping[NodeOrder[bi]].children[bj]
  /\ IsFirstChildChain(visits', b.id)
  /\ MessageIds(b.messages) = SelectSeq(visits', Kept)
  /\ \A x \in 1..Len(visits') : visits'[x] \notin mainThreadIds

\* No branch holds a message of the main thread; in a tree, none of a node on
\* the first-child path from the root.
NoMainThreadMessageInBranch ==
  \A b \in 1..Len(branches) : \A x \in 1..Len(branches[b].messages) :
    /\ branches[b].messages[x].id \notin mainThreadIds
    /\ IsTree => ~OnPath(branches[b].messages[x].id, FirstChildPath(Root))

Processable(conversations) ==
  {k \in 1..Len(conversations) :
     processConversationOutcome(conversations[k]).outcome = "returns"}

\* The x-th smallest member of a set of positions.
NthOf(S, x) == CHOOSE k \in S : Cardinality({h \in S : h < k}) = x - 1

\* C22: processConversations returns, in input order, the processed form of
\* exactly those conversations whose own processing did not throw; one that
\* throws is left out and does not abort the batch.
C22_BatchOmitsOnlyThrowing ==
  (call # None /\ call.fn = "processConversations" /\ ret # None) =>
    /\ ret.value.outcome = "returns"
    /\ Len(ret.value.value) = Cardinality(Processable(call.conversations))
    /\ \A x \in 1..Len(ret.value.value) :
         ret.value.value[x] =
           processConversationOutcome(
             call.conversations[NthOf(Processable(call.conversations), x)]).value

\* The conditions of acceptance: a bare list or an object with a
\* conversations array, the array non-empty, its first element with a
\* non-empty id and an object-typed mapping.
WellFormed(d) ==
  /\ d.shape \in {"list", "object"}
  /\ Len(d.conversations) > 0
  /\ d.conversations[1] # NullConversation
  /\ d.conversations[1].id # ""
  /\ d.conversations[1].mapping \in {"empty", "thread", "bare"}

\* C25: a document is accepted only if it is well formed; every other
\* document ends in an error before any conversation is processed; a bare
\* list and an object holding the same conversations end the same way.
C25_ValidationBeforeProcessing ==
  (call # None /\ call.fn = "handleFileLoaded" /\ ret # None) =>
    /\ "conversations" \in DOMAIN ret.value => WellFormed(call.content)
    /\ ~WellFormed(call.content) =>
         /\ "error" \in DOMAIN ret.value
         /\ ~ret.value.processing
    /\ call.content.shape \in {"list", "object"} =>
         \A other \in {"list", "object"} :
           handleFileLoaded([call.content EXCEPT !.shape = other]) = ret.value

\* C25 witness: an object whose conversations array starts with a conversation
\* without a mapping and goes on with a sound one is rejected unprocessed.
C25_Witness ==
  /\ call # None
  /\ call.fn = "handleFileLoaded"
  /\ call.content.shape = "object"
  /\ Len(call.content.conversations) = 2
  /\ call.content.conversations[1] = [id |-> "c1", mapping |-> "missing"]
  /\ call.content.conversations[2] = [id |-> "c2", mapping |-> "thread"]
  /\ ret # None
  /\ "error" \in DOMAIN ret.value
  /\ ret.value.error = "Invalid conversation structure"
  /\ ~ret.value.processing

(***************************************************************************)
(* C26 .. C30: the scrape request as a whole                               *)
(***************************************************************************)

\* scrapeConversation returns to the loop through retryOperation.
ItemReturns == spc = "item" /\ rpc = "attempt" /\ rpc' = "returned"

\* The retries of an item are exhausted and the loop's catch takes over.
ItemExhausted == spc = "item" /\ rpc = "thrown" /\ spc' = "loop"

\* C26: a conversation with zero extracted messages is never appended to
\* scrapedConversations: the attempt raises and counts as a failure for the
\* retries, and on exhaustion the item is recorded as failed; every appended
\* conversation has at least one message.
C26_NoEmptyConversationScraped ==
  /\ [](progress # None =>
          \A x \in 1..Len(progress.scrapedConversations) :
            progress.scrapedConversations[x].messages >= 1)
  /\ [](store # None =>
          \A x \in 1..Len(store.scrapedConversations) :
            store.scrapedConversations[x].messages >= 1)
  /\ [][ItemReturns => result'.value >= 1 /\ failures' = failures]_vars
  /\ [][(spc = "item" /\ rpc = "attempt" /\ rpc' # "returned"
           /\ invocations' = invocations + 1) =>
          failures' = failures + 1 /\ progress' = progress]_vars
  /\ [][ItemExhausted =>
          /\ failures = config.maxRetries
          /\ progress'.scrapedConversations = progress.scrapedConversations
          /\ progress'.failedConversations =
               Append(progress.failedConversations, FailedConversation(link))]_vars

\* C26 witness: an item whose every attempt extracted nothing has been
\* recorded as failed, next to a scraped conversation with a message.
C26_Witness ==
  /\ spc = "loop"
  /\ progress # None
  /\ Len(progress.scrapedConversations) = 1
  /\ progress.scrapedConversations[1].messages = 1
  /\ Len(progress.failedConversations) = 1
  /\ Len(attempted) = 2
  /\ progress.failedConversations[1].id = attempted[2]

\* C27: with an item cap n > 0 the session attempts at most n of the
\* enumerated items and the response carries at most n conversations; with
\* cap 0 every item of the work list is attempted and every scraped
\* conversation is returned.
C27_CapLimitsAttemptsAndResponse ==
  (spc = "idle" /\ resp # None /\ resp.success) =>
    IF maxConversations > 0
      THEN /\ Len(attempted) <= maxConversations
           /\ Len(resp.conversations) <= maxConversations
      ELSE /\ attempted = linksToScrape
           /\ resp.conversations = progress.scrapedConversations

\* The phase of the session the request has reached.
Phase ==
  CASE spc = "idle" -> "none"
    [] spc = "goto" -> "initializing"
    [] spc = "login" -> "awaiting-login"
    [] spc \in {"es_start", "scroll", "find"} -> "enumerating"
    [] spc \in {"loop", "item", "delay"} -> "scraping"
    [] spc = "es_returned" -> "completed"
    [] spc = "post_catch" -> "error"

\* The steps from phase to phase: the order of the session, error from any
\* phase, and the end of the request from any phase.
PhaseSteps ==
  {<<"none", "initializing">>, <<"initializing", "awaiting-login">>,
   <<"awaiting-login", "enumerating">>, <<"enumerating", "scraping">>,
   <<"scraping", "completed">>}
    \cup {<<p, "error">> : p \in {"initializing", "awaiting-login",
                                   "enumerating", "scraping"}}
    \cup {<<p, "none">> : p \in {"initializing", "awaiting-login",
                                  "enumerating", "scraping", "completed",
                                  "error"}}

\* C28: the phases are passed in the order initializing, awaiting-login,
\* enumerating, scraping, completed; enumeration starts only by the login
\* marker resolving; items are attempted only from the enumerated list; a
\* session in error never reaches completed and attempts no further item.
C28_PhaseOrder ==
  /\ [][Phase' # Phase => <<Phase, Phase'>> \in PhaseSteps]_vars
  /\ [][(Phase # "enumerating" /\ Phase' = "enumerating") => LoginDetected]_vars
  /\ [][attempted' # attempted /\ attempted' # <<>> =>
          /\ Phase = "scraping"
          /\ spc = "loop"
          /\ attempted' = Append(attempted, link)
          /\ link \in Ids(allLinks)]_vars
  /\ [](Ids(attempted) \subseteq Ids(allLinks))
  /\ [][Phase = "error" =>
          Phase' \in {"error", "none"} /\ (Phase' = "error" => attempted' = attempted)]_vars
  /\ [](Phase = "error" => progress = None \/ ~progress.isComplete)

\* C28 witness: a session whose login marker resolved on the second selector
\* has enumerated, attempted two items and completed.
C28_Witness ==
  /\ spc = "es_returned"
  /\ loginWaits = 2
  /\ Len(allLinks) = 2
  /\ Len(attempted) = 2
  /\ progress.isComplete

\* The positions of the request at which a page operation is issued or
\* awaited.
PageInUse ==
  spc \in {"goto", "login", "es_start", "scroll", "find", "loop", "item", "delay"}

\* C29: on every exit path after the launch the browser is closed before the
\* response is returned, and no page operation is issued after the close.
C29_BrowserClosedBeforeResponse ==
  /\ [](PageInUse => browser = "open")
  /\ [](spc \in {"es_returned", "post_catch"} => browser = "open")
  /\ [][(resp' # resp /\ resp' # None) => browser = "open" /\ browser' = "closed"]_vars
  /\ [](spc = "idle" /\ resp # None => browser = "closed")
  /\ [][browser = "closed" => (browser' = "closed" \/ spc' = "goto")]_vars

\* C29 witness: the error response of a request whose login wait timed out
\* has been returned and the browser is closed.
C29_Witness ==
  /\ spc = "idle"
  /\ resp # None
  /\ ~resp.success
  /\ resp.error = "login timeout"
  /\ browser = "closed"

\* The request's process was ended from outside.
WasKilled == spc = "idle" /\ resp = None

\* C30: every session eventually reaches completed or error (unless its
\* process is ended): an item's scrape operation is invoked at most
\* maxRetries times and each item of the work list is attempted at most once,
\* so at most n * maxRetries item attempts are made for n items.
C30_SessionTerminates ==
  /\ [](rpc # "off" => invocations <= config.maxRetries)
  /\ [](Len(attempted) <= Len(linksToScrape))
  /\ [](\A x, y \in 1..Len(attempted) : attempted[x] = attempted[y] => x = y)
  /\ [][invocations' > invocations =>
          invocations' = invocations + 1 /\ attempted' = attempted]_vars
  /\ (spc # "idle") ~> (spc \in {"es_returned", "post_catch"} \/ WasKilled)

\* C30 witness: the last of two items has used up its maxRetries = 3
\* invocations.
C30_Witness ==
  /\ spc = "item"
  /\ rpc = "thrown"
  /\ config.maxRetries = 3
  /\ invocations = 3
  /\ Len(linksToScrape) = 2
  /\ Len(attempted) = 2

(***************************************************************************)
(* C31: the scroll loop                                                    *)
(***************************************************************************)

\* A scroll-to-end is issued.
Scrolls ==
  /\ scrollLoop # None
  /\ scrollLoop' # None
  /\ scrollLoop'.attempts = scrollLoop.attempts + 1

\* C31: the scroll loop stops as soon as a scroll-to-end did not increase the
\* scroll height, and after at most 50 scroll attempts also when the height
\* grows on every scroll.
C31_ScrollLoopStops ==
  /\ [](scrollLoop # None => scrollLoop.attempts <= maxAttempts)
  /\ [][Scrolls =>
          /\ scrollLoop.attempts < maxAttempts
          /\ scrollLoop.currentHeight > scrollLoop.previousHeight]_vars
  /\ []((scrollLoop # None /\ ret # None) =>
          \/ scrollLoop.currentHeight <= scrollLoop.previousHeight
          \/ scrollLoop.attempts = maxAttempts)
  /\ []((scrollLoop # None /\ ret = None /\ scrollLoop.attempts > 0
           /\ scrollLoop.currentHeight <= scrollLoop.previousHeight) =>
          ~ENABLED ScrollOnce)

\* C31 witness: the sidebar grew on each of 50 scrolls and the loop has
\* returned.
C31_Witness ==
  /\ scrollLoop # None
  /\ ret # None
  /\ scrollLoop.attempts = maxAttempts
  /\ scrollLoop.currentHeight > scrollLoop.previousHeight


\* How many conversations were appended to scrapedConversations since the
\* last saveProgress call of this session (since its start when it has made
\* none).
UnsavedConversations ==
  Len(progress.scrapedConversations)
    - (IF lastSaved = None THEN Len(startIds)
                           ELSE Len(lastSaved.scrapedConversations))

\* The scraping loop is suspended: in scrapeConversation's navigation or one
\* of its retry backoffs (line 556), or in the rate-limit delay (line 577).
LoopSuspended == spc \in {"item", "delay"}

\* C32: at every suspension point of the scraping loop fewer than
\* saveProgressInterval conversations were appended to scrapedConversations
\* since the last saveProgress call.
C32_UnsavedBelowInterval ==
  LoopSuspended => UnsavedConversations < config.saveProgressInterval

\* A step inside one session: enhancedScrape holds its progress record before
\* and after it.
InSession == progress # None /\ progress' # None

\* C33: within one session no write to progress.currentIndex lowers it, the
\* write at completion included.
C33_CursorNeverDecreases ==
  [][InSession => progress'.currentIndex >= progress.currentIndex]_vars

\* The session has enumerated the links (line 541 has run).
Enumerated == spc \in {"loop", "item", "delay", "es_returned"}

\* C34: a progress record the session persists or returns after the
\* enumeration has currentIndex <= totalConversations, and the index handed to
\* smartDelay for the item at position i of the work list is the cursor of
\* the session's start plus i.
C34_CursorWithinTotalAndDelayIndex ==
  /\ (Enumerated /\ lastSaved # None) =>
       lastSaved.currentIndex <= lastSaved.totalConversations
  /\ spc = "es_returned" => progress.currentIndex <= progress.totalConversations
  /\ spc = "delay" => globalIndex = startIndex + loopIdx

\* The ids of the entries of a failedConversations list.
FailedIds(failed) == {failed[k].id : k \in DOMAIN failed}

\* C35: in every state of a session, a resumed one included, no conversation
\* id is in scrapedIds and also the id of an entry of failedConversations.
C35_ScrapedAndFailedDisjoint ==
  progress # None =>
    Ids(progress.scrapedIds) \cap FailedIds(progress.failedConversations) = {}

\* The session started without a record to resume: its progress is the new
\* one of lines 518-527, which carries this call's session id.
NewSession == progress # None /\ progress.sessionId = generateSessionId

\* C36: when a session that started without a persisted record completes,
\* scrapedIds.length + failedConversations.length = totalConversations,
\* whatever the onProgress callback does.
C36_CompletedSessionAccountsForAll ==
  (spc = "es_returned" /\ NewSession) =>
    Len(progress.scrapedIds) + Len(progress.failedConversations)
      = progress.totalConversations

\* scrapedIds and scrapedConversations of a progress record are aligned and
\* scrapedIds is free of duplicates.
IdsAligned(p) ==
  /\ Len(p.scrapedIds) = Len(p.scrapedConversations)
  /\ \A k \in 1..Len(p.scrapedIds) : p.scrapedIds[k] = p.scrapedConversations[k].id
  /\ \A j, k \in 1..Len(p.scrapedIds) : j # k => p.scrapedIds[j] # p.scrapedIds[k]

\* C37: in every state scrapedIds and scrapedConversations have the same
\* length, scrapedIds[k] is the id of scrapedConversations[k], and no id
\* occurs twice in scrapedIds; also in a resumed session and in the record
\* the store holds.
C37_ScrapedIdsAligned ==
  /\ progress # None => IdsAligned(progress)
  /\ store # None => IdsAligned(store)

\* A resumed session has scraped a conversation on top of the loaded ones.
C37_Witness ==
  /\ startIds # <<>>
  /\ Len(progress.scrapedIds) > Len(startIds)
  /\ store # None

\* C38: in every successful scrape response, for every item cap, the
\* statistics agree with the returned data: successfulConversations is the
\* number of conversations in the response and totalMessages the sum of
\* their message counts.
C38_StatisticsMatchResponse ==
  (spc = "idle" /\ resp # None /\ resp.success) =>
    /\ resp.statistics.successfulConversations = Len(resp.conversations)
    /\ resp.statistics.totalMessages = SumMessages(resp.conversations)

\* A step in which loadProgress is called: enhancedScrape's line 512.
LoadStep == spc = "es_start" /\ spc' # "es_start"

\* This request has not called saveProgress, and none ran before it.
NothingSaved ==
  requestNo = 0 \/ (requestNo = 1 /\ spc # "idle" /\ lastSaved = None)

\* The most recent call that changed the store is this request's last
\* saveProgress: clearProgress is only called between requests.
SaveIsLatest == spc # "idle" /\ lastSaved # None

\* C39: on a working store loadProgress returns the progress given to the
\* most recent saveProgress that no clearProgress followed, and null when
\* nothing was saved or clearProgress was the last mutating call; and a call
\* of loadProgress leaves the store as it is.
C39_LoadReturnsLastSave ==
  /\ [](storeWorks /\ NothingSaved => loadProgress = None)
  /\ [](storeWorks /\ SaveIsLatest => loadProgress = lastSaved)
  /\ [][storeWorks /\ store' # store /\ ~SaveStep => loadProgress' = None]_vars
  /\ [][LoadStep => store' = store]_vars

====
